---- MODULE Spec2Model ----
(***************************************************************************)
(* Bulk ingestion and idempotent upsert of the CloudUnify backend:         *)
(* POST /resources/bulk and POST /costs/bulk (src/api/routes/ingest.py),   *)
(* the upsert services behind them (src/api/services/ingest.py), the row   *)
(* schemas (src/api/schemas.py) and the two tables (src/api/models.py).    *)
(*                                                                         *)
(* A table is a set of rows.  A request runs in steps, one per await of    *)
(* the handler: validation and session.begin(), the existence SELECT, the  *)
(* INSERT .. ON CONFLICT DO UPDATE statement, the commit.  Uncommitted     *)
(* writes live in the session and reach the table at commit.               *)
(***************************************************************************)
EXTENDS Integers, Sequences, FiniteSets, TLC

VARIABLES
    dialect,      \* name of the engine's dialect (db.py get_database_url)
    resources,    \* committed rows of table "resources"
    costs,        \* committed rows of table "costs"
    now,          \* the clock (datetime.utcnow / CURRENT_TIMESTAMP)
    calls,        \* number of requests started so far
    limit,        \* number of requests of the behaviour
    active,       \* the clients that send requests
    pc,           \* per client: where its handler stands
    req,          \* per client: the request being handled
    existing,     \* per client: result of _existing_*_keys
    txw,          \* per client: rows written by its open transaction
    resp,         \* per client: the response on its way to the client
    pre,          \* per client: both tables as committed when its request arrived
    latest,       \* per table: for each natural key, the row submitted by the statement committed last
    session,      \* per client: the AsyncSession of its request (db.py get_session)
    lookup,       \* one call of _existing_*_keys on its own: its arguments and its result
    derive,       \* two calls of a recommendation id derivation: their arguments and results
    db,           \* the committed tables of the store the offline loaders write to
    today,        \* the day of the loaders' clock
    loader,       \* the offline loader: its inputs, its run under way, its finished runs
    manager,      \* the activity stream's connection manager: _org_conns and _by_org_user
    sockets       \* the websockets of the activity stream's clients

\* the state of the bulk endpoints and the state outside them
inside == <<dialect, resources, costs, now, calls, limit, active, pc, req,
            existing, txw, resp, pre, latest, session>>

outside == <<lookup, derive, db, today, loader, manager, sockets>>

vars == <<dialect, resources, costs, now, calls, limit, active, pc, req,
          existing, txw, resp, pre, latest, session, outside>>

----------------------------------------------------------------------------
(* Bounds of the model *)

MaxBatch == 2      \* items per request
MaxCalls == 3      \* requests per behaviour
MaxTime == 2       \* clock ticks per behaviour

Clients == {"c1", "c2"}

----------------------------------------------------------------------------
(* Values *)

None == {}
Some(x) == {x}
ValueOf(s) == CHOOSE x \in s : TRUE

\* schemas.py ProviderEnum
ProviderEnum == {"aws", "azure", "gcp"}

\* strings that parse as a version-4 UUID (pydantic UUID4)
UUID4s == {"org-1", "org-9", "acct-1", "acct-2", "acct-9"}

\* strings that parse as a calendar date (pydantic date)
Dates == {"2025-01-01", "2025-01-02"}

\* rows of the lookup tables the bulk endpoints never write
Organizations == {"org-1"}
CloudAccounts == {"acct-1", "acct-2"}

\* str.upper() on the currency codes of the model
Upper(s) ==
    CASE s = "usd" -> "USD"
      [] s = "eur" -> "EUR"
      [] OTHER -> s

Range(s) == {s[i] : i \in 1..Len(s)}

RECURSIVE SeqsUpTo(_, _)
SeqsUpTo(S, n) ==
    IF n = 0 THEN {<<>>}
    ELSE LET shorter == SeqsUpTo(S, n - 1)
         IN  shorter \cup {Append(s, x) : s \in {t \in shorter : Len(t) = n - 1}, x \in S}

----------------------------------------------------------------------------
(* Raw request items: untyped dicts, as BulkItemsPayloadRaw carries them *)

ResourceBase ==
    [organization_id |-> "org-1", cloud_account_id |-> "acct-1", provider |-> "aws",
     resource_id |-> "i-1", resource_type |-> "ec2.instance", region |-> "us-east-1",
     state |-> "stopped", tags |-> {<<"team", "alpha">>},
     cost_daily |-> Some(1), cost_monthly |-> Some(36), created_at |-> None]

ResourceItems ==
    { ResourceBase,
      [ResourceBase EXCEPT !.cloud_account_id = "acct-2", !.resource_type = "ec2.spot",
                           !.region = "us-west-2", !.state = "running", !.tags = {},
                           !.cost_daily = None, !.cost_monthly = Some(40),
                           !.created_at = Some(0)],
      [ResourceBase EXCEPT !.provider = "digitalocean"],
      [ResourceBase EXCEPT !.resource_id = "i-2", !.cloud_account_id = "acct-9"] }

CostBase ==
    [organization_id |-> "org-1", cloud_account_id |-> "acct-1", provider |-> "aws",
     service_name |-> "AmazonEC2", region |-> "us-east-1", cost_date |-> "2025-01-01",
     usage_quantity |-> 10, usage_unit |-> "Hours", cost_amount |-> 55, currency |-> "usd"]

CostItems ==
    { CostBase,
      [CostBase EXCEPT !.usage_quantity = 5, !.usage_unit = "GB", !.cost_amount = 70,
                       !.currency = "EUR"],
      [CostBase EXCEPT !.cost_date = "2025-13-40"],
      [CostBase EXCEPT !.organization_id = "org-9"] }

----------------------------------------------------------------------------
(* Row validation *)

\* ResourceIngestRow: the message of the first field that fails, "" when none does
ResourceIngestRowError(item) ==
    CASE item.organization_id \notin UUID4s -> "organization_id: uuid"
      [] item.cloud_account_id \notin UUID4s -> "cloud_account_id: uuid"
      [] item.provider \notin ProviderEnum -> "provider: enum"
      [] item.resource_id = "" -> "resource_id: min_length"
      [] item.resource_type = "" -> "resource_type: min_length"
      [] item.region = "" -> "region: min_length"
      [] item.state = "" -> "state: min_length"
      [] item.cost_daily # None /\ ValueOf(item.cost_daily) < 0 -> "cost_daily: ge"
      [] item.cost_monthly # None /\ ValueOf(item.cost_monthly) < 0 -> "cost_monthly: ge"
      [] OTHER -> ""

\* CostIngestRow: the message of the first field that fails, "" when none does
CostIngestRowError(item) ==
    CASE item.organization_id \notin UUID4s -> "organization_id: uuid"
      [] item.cloud_account_id \notin UUID4s -> "cloud_account_id: uuid"
      [] item.provider \notin ProviderEnum -> "provider: enum"
      [] item.service_name = "" -> "service_name: min_length"
      [] item.region = "" -> "region: min_length"
      [] item.cost_date \notin Dates -> "cost_date: date"
      [] item.usage_quantity < 0 -> "usage_quantity: ge"
      [] item.usage_unit = "" -> "usage_unit: min_length"
      [] item.cost_amount < 0 -> "cost_amount: ge"
      [] item.currency = "" -> "currency: min_length"
      [] OTHER -> ""

\* a CostIngestRow without the currency validator
CostIngestRow_AsGiven(item) == item

\* CostIngestRow._upper_currency: the validated row carries the upper-cased code
CostIngestRow(item) == [item EXCEPT !.currency = Upper(item.currency)]

ResourceIngestRow(item) == item

ItemError(kind, item) ==
    IF kind = "resources" THEN ResourceIngestRowError(item) ELSE CostIngestRowError(item)

ItemRow(kind, item) ==
    IF kind = "resources" THEN ResourceIngestRow(item) ELSE CostIngestRow(item)

\* a validation loop that gives up at the first invalid item
RECURSIVE ValidItems_StopAtFirstError(_, _, _)
ValidItems_StopAtFirstError(kind, items, i) ==
    IF i > Len(items) THEN <<>>
    ELSE IF ItemError(kind, items[i]) = ""
         THEN <<ItemRow(kind, items[i])>> \o ValidItems_StopAtFirstError(kind, items, i + 1)
         ELSE <<>>

\* _validate_items: (valid_items, errors), both in request order
RECURSIVE ValidItems(_, _, _)
ValidItems(kind, items, i) ==
    IF i > Len(items) THEN <<>>
    ELSE IF ItemError(kind, items[i]) = ""
         THEN <<ItemRow(kind, items[i])>> \o ValidItems(kind, items, i + 1)
         ELSE ValidItems(kind, items, i + 1)

\* errors that count the items from 1
RECURSIVE ItemErrors_OneBased(_, _, _)
ItemErrors_OneBased(kind, items, i) ==
    IF i > Len(items) THEN <<>>
    ELSE IF ItemError(kind, items[i]) = ""
         THEN ItemErrors_OneBased(kind, items, i + 1)
         ELSE <<[index |-> i, message |-> ItemError(kind, items[i])]>>
                  \o ItemErrors_OneBased(kind, items, i + 1)

RECURSIVE ItemErrors(_, _, _)
ItemErrors(kind, items, i) ==
    IF i > Len(items) THEN <<>>
    ELSE IF ItemError(kind, items[i]) = ""
         THEN ItemErrors(kind, items, i + 1)
         ELSE <<[index |-> i - 1, message |-> ItemError(kind, items[i])]>>
                  \o ItemErrors(kind, items, i + 1)

----------------------------------------------------------------------------
(* Natural keys and the existence lookup *)

_resource_key_tuple(r) == <<r.organization_id, r.provider, r.resource_id>>

_cost_key_tuple(c) ==
    <<c.organization_id, c.cloud_account_id, c.provider, c.service_name, c.region,
      c.cost_date>>

KeyOf(kind, r) ==
    IF kind = "resources" THEN _resource_key_tuple(r) ELSE _cost_key_tuple(r)

Keys(kind, rows) == [i \in 1..Len(rows) |-> KeyOf(kind, rows[i])]

\* the size of one lookup round trip
ChunkSize == 1000

\* a chunking that leaves out the last, shorter slice
_chunked_WholeChunksOnly(seq, size) ==
    [j \in 1..(Len(seq) \div size) |-> SubSeq(seq, (j - 1) * size + 1, j * size)]

Min(a, b) == IF a < b THEN a ELSE b

\* _chunked: the slices seq[i : i + size] for i = 0, size, 2*size, ...
_chunked(seq, size) ==
    [j \in 1..((Len(seq) + size - 1) \div size) |->
        SubSeq(seq, (j - 1) * size + 1, Min(j * size, Len(seq)))]

\* a lookup that matches nothing (keys compared as UUID objects with stored strings)
SelectKeysIn_NoMatch(kind, table, batch) == {}

\* one SELECT .. WHERE (key columns) IN (batch)
SelectKeysIn(kind, table, batch) ==
    {KeyOf(kind, row) : row \in {r \in table : KeyOf(kind, r) \in Range(batch)}}

\* _existing_resource_keys / _existing_cost_keys
_existing_keys(kind, table, keys) ==
    IF keys = <<>> THEN {}
    ELSE LET chunks == _chunked(keys, ChunkSize)
         IN  UNION {SelectKeysIn(kind, table, chunks[j]) : j \in 1..Len(chunks)}

----------------------------------------------------------------------------
(* The upsert statement *)

\* the payload dictionaries of bulk_upsert_resources, built at time t
ResourceValues(rows, t) ==
    [i \in 1..Len(rows) |->
        [organization_id |-> rows[i].organization_id,
         cloud_account_id |-> rows[i].cloud_account_id,
         provider |-> rows[i].provider,
         resource_id |-> rows[i].resource_id,
         resource_type |-> rows[i].resource_type,
         region |-> rows[i].region,
         state |-> rows[i].state,
         tags |-> rows[i].tags,
         cost_daily |-> rows[i].cost_daily,
         cost_monthly |-> rows[i].cost_monthly,
         created_at |-> IF rows[i].created_at = None THEN t
                        ELSE ValueOf(rows[i].created_at)]]

\* the payload dictionaries of bulk_upsert_costs, built at time t
CostValues(rows, t) ==
    [i \in 1..Len(rows) |->
        [organization_id |-> rows[i].organization_id,
         cloud_account_id |-> rows[i].cloud_account_id,
         provider |-> rows[i].provider,
         service_name |-> rows[i].service_name,
         region |-> rows[i].region,
         cost_date |-> rows[i].cost_date,
         usage_quantity |-> rows[i].usage_quantity,
         usage_unit |-> rows[i].usage_unit,
         cost_amount |-> rows[i].cost_amount,
         currency |-> rows[i].currency,
         created_at |-> t]]

\* Resource: the row an INSERT of v creates (id and updated_at from the column defaults)
ResourceInsert(v, id, t) ==
    [id |-> id,
     organization_id |-> v.organization_id, cloud_account_id |-> v.cloud_account_id,
     provider |-> v.provider, resource_id |-> v.resource_id,
     resource_type |-> v.resource_type, region |-> v.region, state |-> v.state,
     tags |-> v.tags, cost_daily |-> v.cost_daily, cost_monthly |-> v.cost_monthly,
     created_at |-> v.created_at, updated_at |-> t]

\* on_conflict_do_nothing in place of on_conflict_do_update
ResourceConflict_DoNothing(row, v, t) == row

\* a set_ that also takes created_at from the new row
ResourceConflict_CreatedAtToo(row, v, t) ==
    [row EXCEPT !.cloud_account_id = v.cloud_account_id,
                !.resource_type = v.resource_type,
                !.region = v.region,
                !.state = v.state,
                !.tags = v.tags,
                !.cost_daily = v.cost_daily,
                !.cost_monthly = v.cost_monthly,
                !.created_at = v.created_at,
                !.updated_at = t]

\* Resource: set_ of on_conflict_do_update applied to the stored row
ResourceConflictUpdate(row, v, t) ==
    [row EXCEPT !.cloud_account_id = v.cloud_account_id,
                !.resource_type = v.resource_type,
                !.region = v.region,
                !.state = v.state,
                !.tags = v.tags,
                !.cost_daily = v.cost_daily,
                !.cost_monthly = v.cost_monthly,
                !.updated_at = t]

\* Cost: the row an INSERT of v creates
CostInsert(v, id, t) ==
    [id |-> id,
     organization_id |-> v.organization_id, cloud_account_id |-> v.cloud_account_id,
     provider |-> v.provider, service_name |-> v.service_name, region |-> v.region,
     cost_date |-> v.cost_date, usage_quantity |-> v.usage_quantity,
     usage_unit |-> v.usage_unit, cost_amount |-> v.cost_amount,
     currency |-> v.currency, created_at |-> v.created_at, updated_at |-> t]

\* a set_ that adds the new amounts to the stored ones
CostConflict_Accumulate(row, v, t) ==
    [row EXCEPT !.usage_quantity = @ + v.usage_quantity,
                !.usage_unit = v.usage_unit,
                !.cost_amount = @ + v.cost_amount,
                !.currency = v.currency,
                !.updated_at = t]

\* a set_ without updated_at
CostConflict_NoUpdatedAt(row, v, t) ==
    [row EXCEPT !.usage_quantity = v.usage_quantity,
                !.usage_unit = v.usage_unit,
                !.cost_amount = v.cost_amount,
                !.currency = v.currency]

\* Cost: set_ of on_conflict_do_update applied to the stored row
CostConflictUpdate(row, v, t) ==
    [row EXCEPT !.usage_quantity = v.usage_quantity,
                !.usage_unit = v.usage_unit,
                !.cost_amount = v.cost_amount,
                !.currency = v.currency,
                !.updated_at = t]

InsertRow(kind, v, id, t) ==
    IF kind = "resources" THEN ResourceInsert(v, id, t) ELSE CostInsert(v, id, t)

ConflictUpdate(kind, row, v, t) ==
    IF kind = "resources" THEN ResourceConflictUpdate(row, v, t)
    ELSE CostConflictUpdate(row, v, t)

\* a plain INSERT: the conflict target never matches
OnConflict_AlwaysInsert(kind, table, v, id, t) ==
    table \cup {InsertRow(kind, v, id, t)}

\* one VALUES row of INSERT .. ON CONFLICT (index_elements) DO UPDATE
OnConflictDoUpdate(kind, table, v, id, t) ==
    IF \E row \in table : KeyOf(kind, row) = KeyOf(kind, v)
    THEN {IF KeyOf(kind, row) = KeyOf(kind, v) THEN ConflictUpdate(kind, row, v, t)
          ELSE row : row \in table}
    ELSE table \cup {InsertRow(kind, v, id, t)}

\* an id no row of `used` carries (uuid.uuid4)
FreshId(used) ==
    CHOOSE n \in 1..(Cardinality(used) + 1) : \A row \in used : row.id # n

\* the whole statement: the VALUES rows in order, from row i on
RECURSIVE ExecuteFrom(_, _, _, _, _, _)
ExecuteFrom(kind, table, values, i, others, t) ==
    IF i > Len(values) THEN table
    ELSE ExecuteFrom(kind,
                     OnConflictDoUpdate(kind, table, values[i],
                                        FreshId(table \cup others), t),
                     values, i + 1, others, t)

HasDuplicateKey(kind, values) ==
    \E i, j \in 1..Len(values) : i < j /\ KeyOf(kind, values[i]) = KeyOf(kind, values[j])

\* the foreign keys of both tables: organizations.id and cloud_accounts.id
ForeignKeyViolation(values) ==
    \E i \in 1..Len(values) :
        \/ values[i].organization_id \notin Organizations
        \/ values[i].cloud_account_id \notin CloudAccounts

\* what makes the statement raise: PostgreSQL enforces the foreign keys and
\* refuses a statement that proposes one conflict key twice; SQLite (no
\* PRAGMA foreign_keys in db.py) does neither and applies the rows in order
StatementError(d, kind, values) ==
    d = "postgresql" /\ (ForeignKeyViolation(values) \/ HasDuplicateKey(kind, values))

----------------------------------------------------------------------------
(* Sessions and transactions *)

Kinds == {"resources", "costs"}

Table(kind) == IF kind = "resources" THEN resources ELSE costs

\* a table with the written rows put in place of their older versions
Merge(table, writes) ==
    {r \in table : \A w \in writes : w.id # r.id} \cup writes

\* rows other open transactions wrote to the table and have not committed
OtherWrites(c, kind) ==
    UNION {txw[d] : d \in {e \in Clients \ {c} : req[e].kind = kind}}

\* the last row of the batch for each natural key of the batch
LastPerKey(kind, rows) ==
    {rows[i] : i \in {j \in 1..Len(rows) :
                        \A k \in (j + 1)..Len(rows) :
                            KeyOf(kind, rows[k]) # KeyOf(kind, rows[j])}}

----------------------------------------------------------------------------
(* The activity stream at rest *)

Sockets == {"w1", "w2"}

\* a dict without keys
EmptyMap == [k \in {} |-> {}]

\* ActivityConnectionManager.__init__
NoManager == [_org_conns |-> EmptyMap, _by_org_user |-> EmptyMap]

\* a websocket no client has opened yet
NoSocket == [state |-> "none", organization_id |-> "none", user_id |-> "none",
             token |-> "missing", inbox |-> <<>>, ping_task |-> FALSE, due |-> 0]

\* no client of the activity stream in the behaviour
NoActivity == manager = NoManager /\ sockets = [w \in Sockets |-> NoSocket]

(* The activity stream: services/activity_stream.py and routes/ws.py *)

\* whether set.add(meta) and set.discard(meta) accept a _ConnMeta: the class
\* is a @dataclass with eq and without frozen, which sets its __hash__ to None
ConnMetaHashable == FALSE

\* d.get(k, default)
Get(d, k, default) == IF k \in DOMAIN d THEN d[k] ELSE default

\* defaultdict(set).__getitem__: reading a missing key stores an empty set under it
Touched(d, k) == [o \in DOMAIN d \cup {k} |-> IF o \in DOMAIN d THEN d[o] ELSE {}]

\* d[k] = v
Put(d, k, v) == [o \in DOMAIN d \cup {k} |-> IF o = k THEN v ELSE d[o]]

\* _safe_send: nothing is sent unless the websocket is connected
_safe_send(sock, message) ==
    IF sock.state # "open" THEN sock ELSE [sock EXCEPT !.inbox = Append(@, message)]

\* broadcast: the message goes to the connections of _org_conns.get(organization_id, set());
\* _safe_send raises nothing, so no connection is ever put on the dead list
broadcast(m, socks, organization_id, message) ==
    LET recipients == Get(m._org_conns, organization_id, {})
    IN  [w \in Sockets |-> IF w \in recipients THEN _safe_send(socks[w], message)
                           ELSE socks[w]]

\* make_event for the rows of one organization in a bulk call
make_event(event_type, organization_id, processed_count) ==
    [type |-> event_type, organization_id |-> organization_id,
     processed_count |-> processed_count]

\* org_counts of the broadcast block of a bulk route
org_counts(rows) ==
    [o \in {rows[i].organization_id : i \in 1..Len(rows)} |->
        Cardinality({i \in 1..Len(rows) : rows[i].organization_id = o})]

\* the broadcast block of a bulk route: one event per organization of the
\* valid rows; a connection belongs to one organization, so the order of the
\* organizations does not show
BroadcastAll(m, socks, kind, rows) ==
    LET counts == org_counts(rows)
        event_type == IF kind = "resources" THEN "resources.bulk" ELSE "costs.bulk"
    IN  [w \in Sockets |->
            LET hit == {o \in DOMAIN counts : w \in Get(m._org_conns, o, {})}
            IN  IF hit = {} THEN socks[w]
                ELSE LET o == CHOOSE x \in hit : TRUE
                     IN  broadcast(m, socks, o, make_event(event_type, o, counts[o]))[w]]

\* a client whose handshake with a valid token has been handled is owed one
\* more 'resources.bulk' event of its organization
Owed(socks, kind, rows) ==
    [w \in Sockets |->
        IF /\ kind = "resources" /\ socks[w].token = "valid" /\ socks[w].state # "none"
           /\ \E i \in 1..Len(rows) : rows[i].organization_id = socks[w].organization_id
        THEN [socks[w] EXCEPT !.due = @ + 1] ELSE socks[w]]

NoRequest == [kind |-> "resources", items |-> <<>>, rows |-> <<>>, errors |-> <<>>]

NoResponse ==
    [status |-> "none", body |-> "none", inserted |-> 0, updated |-> 0, errors |-> <<>>]

\* the response returned where the HTTPException should be raised
AllFailed_Returned(errors) ==
    [status |-> "200", body |-> "BulkIngestResponse", inserted |-> 0, updated |-> 0,
     errors |-> errors]

\* the HTTPException of the handlers: 400 with a BulkIngestResponse as detail
AllFailed(errors) ==
    [status |-> "400", body |-> "BulkIngestResponse", inserted |-> 0, updated |-> 0,
     errors |-> errors]

\* the handlers' return value
Completed(inserted, updated, errors) ==
    [status |-> "200", body |-> "BulkIngestResponse", inserted |-> inserted,
     updated |-> updated, errors |-> errors]

\* an exception that leaves the handler: no BulkIngestResponse is produced
Raised(status) ==
    [status |-> status, body |-> "exception", inserted |-> 0, updated |-> 0,
     errors |-> <<>>]

----------------------------------------------------------------------------
(* The handlers, step by step *)

NoTables == [resources |-> {}, costs |-> {}]

\* resources_bulk_ingest / costs_bulk_ingest up to session.begin():
\* _validate_items, then either the 400 (no valid row) or the transaction is opened
\* no request of the client under way: no session
NoSession == [open |-> FALSE, user |-> "none", in_transaction |-> FALSE, begun |-> 0]

\* the session the dependency hands to the request: nothing has run on it
get_session == [NoSession EXCEPT !.open = TRUE]

\* session.begin() on a session that is in no transaction
begin(s) == [s EXCEPT !.in_transaction = TRUE, !.begun = @ + 1]

\* the transaction of the session ends (commit, rollback)
end(s) == [s EXCEPT !.in_transaction = FALSE]

Request(c, kind, items) ==
    /\ c \in active
    /\ pc[c] = "idle"
    /\ calls < limit
    /\ calls' = calls + 1
    /\ LET valid_rows == ValidItems(kind, items, 1)
           errors == ItemErrors(kind, items, 1)
           s == IF session[c].open THEN session[c] ELSE get_session
       IN  /\ req' = [req EXCEPT ![c] = [kind |-> kind, items |-> items,
                                         rows |-> valid_rows, errors |-> errors]]
           /\ IF valid_rows = <<>>
              THEN /\ resp' = [resp EXCEPT ![c] = AllFailed(errors)]
                   /\ pc' = [pc EXCEPT ![c] = "respond"]
                   /\ session' = [session EXCEPT ![c] = s]
              ELSE IF s.in_transaction
              THEN /\ resp' = [resp EXCEPT ![c] = Raised("500")]
                   /\ pc' = [pc EXCEPT ![c] = "respond"]
                   /\ session' = [session EXCEPT ![c] = s]
              ELSE /\ resp' = resp
                   /\ pc' = [pc EXCEPT ![c] = "check"]
                   /\ session' = [session EXCEPT ![c] = begin(s)]
    /\ pre' = [pre EXCEPT ![c] = [resources |-> resources, costs |-> costs]]
    /\ UNCHANGED <<dialect, resources, costs, now, limit, active, existing, txw, latest>>
    /\ UNCHANGED outside

resources_bulk_ingest(c) ==
    \E items \in SeqsUpTo(ResourceItems, MaxBatch) : Request(c, "resources", items)

costs_bulk_ingest(c) ==
    \E items \in SeqsUpTo(CostItems, MaxBatch) : Request(c, "costs", items)

\* bulk_upsert_*: keys = [...]; existing = await _existing_*_keys(session, keys)
ExistingKeys(c) ==
    /\ pc[c] = "check"
    /\ existing' = [existing EXCEPT ![c] =
                        _existing_keys(req[c].kind, Merge(Table(req[c].kind), txw[c]),
                                       Keys(req[c].kind, req[c].rows))]
    /\ pc' = [pc EXCEPT ![c] = "write"]
    /\ UNCHANGED <<dialect, resources, costs, now, calls, limit, active, req, txw, resp, pre,
                   latest, session>>
    /\ UNCHANGED outside

\* a session exit that commits whatever happened
RolledBack_Committed(table, writes) == Merge(table, writes)

\* what a rollback leaves of the table: the uncommitted writes are dropped
RolledBack(table, writes) == table

\* what a commit leaves of the table
Committed(table, writes) == Merge(table, writes)

\* bulk_upsert_*: the payload is built and await session.execute(stmt) runs the
\* statement; when it raises, session.begin() rolls back and the handler ends
ExecuteUpsert(c) ==
    /\ pc[c] = "write"
    /\ LET kind == req[c].kind
           values == IF kind = "resources" THEN ResourceValues(req[c].rows, now)
                     ELSE CostValues(req[c].rows, now)
           others == OtherWrites(c, kind)
           table == Table(kind)
       IN  /\ \A w \in others : KeyOf(kind, w) \notin Range(Keys(kind, values))
           /\ IF StatementError(dialect, kind, values)
              THEN /\ resources' = RolledBack(resources, {})
                   /\ costs' = RolledBack(costs, {})
                   /\ txw' = [txw EXCEPT ![c] = {}]
                   /\ resp' = [resp EXCEPT ![c] = Raised("500")]
                   /\ pc' = [pc EXCEPT ![c] = "respond"]
                   /\ session' = [session EXCEPT ![c] = end(@)]
              ELSE /\ txw' = [txw EXCEPT ![c] =
                                ExecuteFrom(kind, table, values, 1, others, now) \ table]
                   /\ pc' = [pc EXCEPT ![c] = "commit"]
                   /\ UNCHANGED <<resources, costs, resp, session>>
    /\ UNCHANGED <<dialect, now, calls, limit, active, req, existing, pre, latest>>
    /\ UNCHANGED outside

\* inserted = len(rows) - len(existing)
InsertedCount(rows, found) == Len(rows) - Cardinality(found)

\* updated = len(existing)
UpdatedCount(rows, found) == Cardinality(found)

\* the counts of bulk_upsert_*, the commit of session.begin() and the
\* handler's return value
Commit(c) ==
    /\ pc[c] = "commit"
    /\ LET kind == req[c].kind
           inserted == InsertedCount(req[c].rows, existing[c])
           updated == UpdatedCount(req[c].rows, existing[c])
       IN  /\ IF kind = "resources"
              THEN resources' = Committed(resources, txw[c]) /\ costs' = costs
              ELSE costs' = Committed(costs, txw[c]) /\ resources' = resources
           /\ resp' = [resp EXCEPT ![c] = Completed(inserted, updated, req[c].errors)]
           /\ latest' = [latest EXCEPT ![kind] =
                            {v \in @ : KeyOf(kind, v) \notin Range(Keys(kind, req[c].rows))}
                                \cup LastPerKey(kind, req[c].rows)]
    /\ txw' = [txw EXCEPT ![c] = {}]
    /\ session' = [session EXCEPT ![c] = end(@)]
    /\ pc' = [pc EXCEPT ![c] = "broadcast"]
    /\ UNCHANGED <<dialect, now, calls, limit, active, req, existing, pre>>
    /\ UNCHANGED outside

\* the request is cancelled at an await inside session.begin(): rollback
Cancel(c) ==
    /\ pc[c] \in {"check", "write", "commit"}
    /\ IF req[c].kind = "resources"
       THEN resources' = RolledBack(resources, txw[c]) /\ costs' = costs
       ELSE costs' = RolledBack(costs, txw[c]) /\ resources' = resources
    /\ txw' = [txw EXCEPT ![c] = {}]
    /\ resp' = [resp EXCEPT ![c] = Raised("cancelled")]
    /\ session' = [session EXCEPT ![c] = end(@)]
    /\ pc' = [pc EXCEPT ![c] = "respond"]
    /\ UNCHANGED <<dialect, now, calls, limit, active, req, existing, pre, latest>>
    /\ UNCHANGED outside

\* the response (or the exception) leaves the server; get_session closes the session
\* the exception of the broadcast block reaches the client
AfterBroadcast_Propagated(response, raised) == IF raised THEN Raised("500") ELSE response

\* except Exception: logger.warning(...), then the return of the handler
AfterBroadcast(response, raised) == response

\* the broadcast block of a bulk route, entered once the transaction block
\* has been left without an exception and the 400 has not been raised;
\* building an event (ActivityEvent is not defined in src/api/schemas.py) or sending
\* it may raise
Broadcast(c) ==
    /\ pc[c] = "broadcast"
    /\ \E raised \in BOOLEAN :
          /\ sockets' = IF raised THEN sockets
                        ELSE BroadcastAll(manager, Owed(sockets, req[c].kind, req[c].rows),
                                          req[c].kind, req[c].rows)
          /\ resp' = [resp EXCEPT ![c] = AfterBroadcast(@, raised)]
    /\ pc' = [pc EXCEPT ![c] = "respond"]
    /\ UNCHANGED <<dialect, resources, costs, now, calls, limit, active, req, existing, txw,
                   pre, latest, session>>
    /\ UNCHANGED <<lookup, derive, db, today, loader, manager>>

Respond(c) ==
    /\ pc[c] = "respond"
    /\ pc' = [pc EXCEPT ![c] = "idle"]
    /\ req' = [req EXCEPT ![c] = NoRequest]
    /\ existing' = [existing EXCEPT ![c] = {}]
    /\ resp' = [resp EXCEPT ![c] = NoResponse]
    /\ pre' = [pre EXCEPT ![c] = NoTables]
    /\ session' = [session EXCEPT ![c] = NoSession]
    /\ UNCHANGED <<dialect, resources, costs, now, calls, limit, active, txw, latest>>
    /\ UNCHANGED outside

\* time passes
Tick ==
    /\ now < MaxTime
    /\ now' = now + 1
    /\ UNCHANGED <<dialect, resources, costs, calls, limit, active, pc, req, existing, txw,
                   resp, pre, latest, session>>
    /\ UNCHANGED outside

----------------------------------------------------------------------------
(* Specifications *)

(* The offline loaders at rest *)

PROVIDER_SLUGS == {"aws", "azure", "gcp"}


Tables == {"resources", "resource_costs_daily", "recommendations"}

\* TableReport() / TableCounts()
TableReport == [inserted |-> 0, updated |-> 0, skipped |-> 0]

NoReports == [t \in Tables |-> TableReport]

\* the tables of the store
NoDb == [organizations |-> {}, cloud_accounts |-> {}, resources |-> {},
         resource_costs_daily |-> {}, recommendations |-> {}]

NoAccounts == [p \in PROVIDER_SLUGS |-> None]


\* the organizations the store may hold before the first run
OrgOne == [namespace |-> "none", name |-> "org-1"]
OrgTwo == [namespace |-> "none", name |-> "org-2"]

NoCfg == [script |-> "none", organization_id |-> OrgOne, account_by_provider |-> NoAccounts,
          dry_run |-> FALSE, has_resource_costs_daily |-> FALSE]

\* no loader in the behaviour
NoRun == [script |-> "none", args |-> [organization_id |-> None, create_lookups |-> TRUE,
                                       input_dir_exists |-> TRUE],
          has_rcd |-> FALSE, files |-> <<>>, pc |-> "off", run |-> 0, i |-> 0,
          cfg |-> NoCfg, conn |-> NoDb, before |-> NoDb, created |-> <<0, 0>>,
          totals |-> NoReports, outcomes |-> <<>>, hist |-> <<>>]

\* no loader runs in the behaviour
NoLoader == db = NoDb /\ today = 1 /\ loader = NoRun

\* no derivation is under way
NoDerive == [fn |-> "none", a |-> <<>>, b |-> <<>>, ida |-> <<>>, idb |-> <<>>, pc |-> "none"]

\* no lookup is under way
NoLookup == [kind |-> "resources", keys |-> <<>>, table |-> {}, existing |-> {},
             updated |-> 0, pc |-> "none"]

InitIngest(clients, n) ==
    /\ dialect \in {"postgresql", "sqlite"}
    /\ limit = n
    /\ resources = {}
    /\ costs = {}
    /\ now = 1
    /\ calls = 0
    /\ active = clients
    /\ pc = [c \in Clients |-> "idle"]
    /\ req = [c \in Clients |-> NoRequest]
    /\ existing = [c \in Clients |-> {}]
    /\ txw = [c \in Clients |-> {}]
    /\ resp = [c \in Clients |-> NoResponse]
    /\ pre = [c \in Clients |-> NoTables]
    /\ latest = [k \in Kinds |-> {}]
    /\ session = [c \in Clients |-> NoSession]

InitWith(clients, n) ==
    /\ InitIngest(clients, n)
    /\ lookup = NoLookup
    /\ derive = NoDerive
    /\ NoLoader
    /\ NoActivity

\* one client: the requests run one after the other
Init == InitWith({"c1"}, MaxCalls)

\* two clients, one request each on average: the requests interleave at every await
InitConcurrent == InitWith(Clients, Cardinality(Clients))

Next ==
    \/ \E c \in Clients : resources_bulk_ingest(c)
    \/ \E c \in Clients : costs_bulk_ingest(c)
    \/ \E c \in Clients : ExistingKeys(c)
    \/ \E c \in Clients : ExecuteUpsert(c)
    \/ \E c \in Clients : Commit(c)
    \/ \E c \in Clients : Broadcast(c)
    \/ \E c \in Clients : Cancel(c)
    \/ \E c \in Clients : Respond(c)
    \/ Tick

Spec == Init /\ [][Next]_vars

SpecConcurrent == InitConcurrent /\ [][Next]_vars

----------------------------------------------------------------------------
(* The bulk endpoints behind their dependencies: get_session and              *)
(* get_current_user are resolved before the handler runs, once per request,   *)
(* so the handler and get_current_user hold the same session                  *)

\* what the Authorization header of a request carries: nothing usable, a token
\* that does not decode to an access token with sub and role, a good token of a
\* user that is missing or inactive, a good token of an active user
Credentials == {"missing", "invalid", "inactive", "active"}

get_current_user(c, credentials) ==
    /\ c \in active
    /\ pc[c] = "idle"
    /\ ~session[c].open
    /\ calls < limit
    /\ LET s == get_session
           \* session.execute(select(User)...): the session begins a transaction
           selected == [s EXCEPT !.in_transaction = TRUE, !.user = credentials]
       IN  IF credentials \in {"missing", "invalid"}
           THEN /\ session' = [session EXCEPT ![c] = s]
                /\ resp' = [resp EXCEPT ![c] = Raised("401")]
                /\ pc' = [pc EXCEPT ![c] = "respond"]
           ELSE IF credentials = "inactive"
           THEN /\ session' = [session EXCEPT ![c] = selected]
                /\ resp' = [resp EXCEPT ![c] = Raised("401")]
                /\ pc' = [pc EXCEPT ![c] = "respond"]
           ELSE /\ session' = [session EXCEPT ![c] = selected]
                /\ UNCHANGED <<resp, pc>>
    /\ UNCHANGED <<dialect, resources, costs, now, calls, limit, active, req, existing, txw,
                   pre, latest>>
    /\ UNCHANGED outside

\* the handler runs once get_current_user has returned the principal
Authenticated(c) == session[c].open /\ session[c].user = "active"

NextAuth ==
    \/ \E c \in Clients, credentials \in Credentials : get_current_user(c, credentials)
    \/ \E c \in Clients : Authenticated(c) /\ resources_bulk_ingest(c)
    \/ \E c \in Clients : Authenticated(c) /\ costs_bulk_ingest(c)
    \/ \E c \in Clients : Respond(c)
    \/ Tick

SpecAuth == Init /\ [][NextAuth]_vars

----------------------------------------------------------------------------
(* The existence lookup on its own, on key lists longer than one chunk *)

MaxKeys == 2001    \* candidate keys per lookup

LookupLengths ==
    {n \in {0, 1, ChunkSize - 1, ChunkSize, ChunkSize + 1, 2 * ChunkSize, MaxKeys} :
        n <= MaxKeys}

LookupNames == {"k0", "k1", "k2"}

\* a valid row whose natural key is told apart by `name`
LookupItem(kind, name) ==
    IF kind = "resources" THEN [ResourceBase EXCEPT !.resource_id = name]
    ELSE CostIngestRow([CostBase EXCEPT !.service_name = name])

\* the stored row of that key
LookupRow(kind, name) ==
    IF kind = "resources"
    THEN ResourceInsert(ResourceValues(<<LookupItem(kind, name)>>, 1)[1], name, 1)
    ELSE CostInsert(CostValues(<<LookupItem(kind, name)>>, 1)[1], name, 1)

\* keys = [_key_tuple(r) for r in rows]: n rows of key k0, the one at position p of key k1
LookupKeyList(kind, n, p) ==
    [i \in 1..n |-> KeyOf(kind, LookupItem(kind, IF i = p THEN "k1" ELSE "k0"))]

InitLookup ==
    /\ InitIngest({}, 0)
    /\ derive = NoDerive
    /\ NoLoader
    /\ NoActivity
    /\ \E kind \in Kinds, n \in LookupLengths, names \in SUBSET LookupNames :
         \E p \in {q \in {0, 1, ChunkSize, ChunkSize + 1, n} : q <= n} :
             lookup = [kind |-> kind, keys |-> LookupKeyList(kind, n, p),
                       table |-> {LookupRow(kind, name) : name \in names},
                       existing |-> {}, updated |-> 0, pc |-> "call"]

\* existing = await _existing_*_keys(session, keys); updated = len(existing)
LookupKeys ==
    /\ lookup.pc = "call"
    /\ LET found == _existing_keys(lookup.kind, lookup.table, lookup.keys)
       IN  lookup' = [lookup EXCEPT !.existing = found,
                                    !.updated = UpdatedCount(lookup.keys, found),
                                    !.pc = "done"]
    /\ UNCHANGED <<inside, derive, db, today, loader, manager, sockets>>

NextLookup == LookupKeys

SpecLookup == InitLookup /\ [][NextLookup]_vars

----------------------------------------------------------------------------
(* Derived recommendation ids of the offline loaders.  A text is a sequence *)
(* of characters; an absent value is None.                                  *)

Colon == <<":">>

\* the texts a component takes in the model
Texts == {<<>>, <<"a">>, <<"b">>, <<"a", " ">>, <<"a", " ", " ", "b">>, <<"a", " ", "b">>}

\* texts that uuid.UUID() parses
UuidTexts == {<<"u">>}

\* v or ''
OrEmpty(v) == IF v = None THEN <<>> ELSE ValueOf(v)

\* uuid.uuid5(namespace, name): a hash of the name, taken to be free of collisions
uuid5(namespace, name) == [namespace |-> namespace, name |-> name]

\* a derivation that leaves the description out of the base
_stable_recommendation_id_NoDescription(organization_id, provider, external_resource_id, recommendation_type, description) ==
    uuid5("NAMESPACE_RECOMMENDATION",
          organization_id \o Colon \o provider \o Colon \o OrEmpty(external_resource_id)
              \o Colon \o recommendation_type \o Colon)

\* ingest_datasets.py _stable_recommendation_id
_stable_recommendation_id(organization_id, provider, external_resource_id, recommendation_type, description) ==
    uuid5("NAMESPACE_RECOMMENDATION",
          organization_id \o Colon \o provider \o Colon \o OrEmpty(external_resource_id)
              \o Colon \o recommendation_type \o Colon \o OrEmpty(description))

\* re.sub(r"\s+", " ", base): every run of whitespace becomes one space
RECURSIVE CollapseSpaces(_)
CollapseSpaces(t) ==
    IF Len(t) = 0 THEN t
    ELSE IF Head(t) = " " /\ Len(t) > 1 /\ t[2] = " " THEN CollapseSpaces(Tail(t))
         ELSE <<Head(t)>> \o CollapseSpaces(Tail(t))

\* str.strip() of a text whose whitespace runs are single spaces
Strip(t) ==
    LET from == IF Len(t) > 0 /\ t[1] = " " THEN 2 ELSE 1
        to == IF Len(t) > 0 /\ t[Len(t)] = " " THEN Len(t) - 1 ELSE Len(t)
    IN  SubSeq(t, from, to)

\* _is_missing: None or a text of whitespace only
_is_missing(v) == v = None \/ \A i \in 1..Len(ValueOf(v)) : ValueOf(v)[i] = " "

\* ingest_step2_2_to_2_5.py _stable_recommendation_uuid, called with
\* recommendation_id = row.get("recommendation_id")
_stable_recommendation_uuid(organization_id, provider, recommendation_id, row) ==
    IF ~_is_missing(recommendation_id) /\ ValueOf(recommendation_id) \in UuidTexts
    THEN [namespace |-> "none", name |-> ValueOf(recommendation_id)]
    ELSE uuid5("NAMESPACE_RECOMMENDATION",
               Strip(CollapseSpaces(
                   organization_id \o Colon \o provider \o Colon
                       \o OrEmpty(row.recommendation_id) \o Colon
                       \o OrEmpty(row.resource_id) \o Colon
                       \o OrEmpty(row.recommendation_type) \o Colon
                       \o OrEmpty(row.description))))

\* the components of one call; recommendation_id is used by the step-2 loader only
Optionals == {None} \cup {Some(t) : t \in Texts}

DeriveArgs ==
    [organization_id : {<<"o">>}, provider : {<<"p">>, <<"q">>},
     recommendation_id : {None, Some(<<"a">>), Some(<<"u">>)},
     external_resource_id : Optionals,
     recommendation_type : {<<"a">>, <<"b">>, <<"a", " ">>},
     description : Optionals]

Components ==
    {"organization_id", "provider", "recommendation_id", "external_resource_id",
     "recommendation_type", "description"}

\* the components in which two calls differ
Changed(a, b) == {f \in Components : a[f] # b[f]}

DerivedId(fn, x) ==
    IF fn = "_stable_recommendation_id"
    THEN _stable_recommendation_id(x.organization_id, x.provider, x.external_resource_id,
                                   x.recommendation_type, x.description)
    ELSE _stable_recommendation_uuid(x.organization_id, x.provider, x.recommendation_id,
                                     [recommendation_id |-> x.recommendation_id,
                                      resource_id |-> x.external_resource_id,
                                      recommendation_type |-> Some(x.recommendation_type),
                                      description |-> x.description])

InitDerive ==
    /\ InitIngest({}, 0)
    /\ lookup = NoLookup
    /\ NoLoader
    /\ NoActivity
    /\ \E fn \in {"_stable_recommendation_id", "_stable_recommendation_uuid"} :
         \E a \in DeriveArgs, b \in DeriveArgs :
             /\ Cardinality(Changed(a, b)) <= 1
             /\ fn = "_stable_recommendation_id" =>
                    a.recommendation_id = None /\ b.recommendation_id = None
             /\ derive = [fn |-> fn, a |-> a, b |-> b, ida |-> <<>>, idb |-> <<>>,
                          pc |-> "call"]

\* both calls are made
Derive ==
    /\ derive.pc = "call"
    /\ derive' = [derive EXCEPT !.ida = DerivedId(derive.fn, derive.a),
                                 !.idb = DerivedId(derive.fn, derive.b),
                                 !.pc = "done"]
    /\ UNCHANGED <<inside, lookup, db, today, loader, manager, sockets>>

NextDerive == Derive

SpecDerive == InitDerive /\ [][NextDerive]_vars

----------------------------------------------------------------------------
(* The offline loaders: scripts/ingest_datasets.py and                      *)
(* scripts/ingest_step2_2_to_2_5.py.  One connection, one file at a time.   *)

MaxRows == 2       \* rows per input file
MaxRuns == 2       \* runs of the loader per behaviour
MaxDay == 2        \* days the behaviour spans

Scripts == {"ingest_datasets", "ingest_step2_2_to_2_5"}

\* sorted(providers)
SortedProviders(S) == SelectSeq(<<"aws", "azure", "gcp">>, LAMBDA p : p \in S)

\* the counters with the 'skipped += 1' of a row left out
Count_SkippedLost(rep, table, field) == IF field = "skipped" THEN rep ELSE [rep EXCEPT ![table][field] = @ + 1]

\* reports[table].field += 1
Count(rep, table, field) == [rep EXCEPT ![table][field] = @ + 1]

CountBy(rep, table, field, n) == [rep EXCEPT ![table][field] = @ + n]

\* totals[t].x = rep[t].x: the assignment in place of the sum
AddReports_Assign(a, b) == b

\* totals[t].x += rep[t].x for every table and counter
AddReports(a, b) ==
    [t \in Tables |-> [f \in {"inserted", "updated", "skipped"} |-> a[t][f] + b[t][f]]]

\* _slugify("Default Organization"), and the defaults of the step-2 loader
DefaultSlug == "default-organization"
DemoSlug == "cloudunify-demo"

\* str(uuid.uuid5(NAMESPACE_ORG, slug))
OrgIdOf(slug) == uuid5("NAMESPACE_ORG", slug)

\* native_id = f"mock-{provider}" when none is given
NativeId(provider) == <<"mock", provider>>

\* the outcome of a lookup step: SystemExit or the id, and the store after its commit
LookupExit(d) == [exit |-> TRUE, id |-> None, created |-> FALSE, db |-> d]

LookupOk(d, id, created) == [exit |-> FALSE, id |-> Some(id), created |-> created, db |-> d]

\* ingest_datasets.py _ensure_organization; it takes no dry_run and commits what it creates
_ensure_organization(d, org_id, create_lookups) ==
    LET orgs == d.organizations
        by_slug == {o \in orgs : o.slug = DefaultSlug}
        insert(id) == [d EXCEPT !.organizations = @ \cup {[id |-> id, slug |-> DefaultSlug]}]
    IN  IF org_id # None
        THEN IF \E o \in orgs : o.id = ValueOf(org_id) THEN LookupOk(d, ValueOf(org_id), FALSE)
             ELSE IF ~create_lookups THEN LookupExit(d)
             ELSE IF by_slug # {} THEN LookupOk(d, (CHOOSE o \in by_slug : TRUE).id, FALSE)
             ELSE LookupOk(insert(ValueOf(org_id)), ValueOf(org_id), TRUE)
        ELSE IF Cardinality(orgs) = 1 THEN LookupOk(d, (CHOOSE o \in orgs : TRUE).id, FALSE)
             ELSE IF Cardinality(orgs) > 1 THEN LookupExit(d)
             ELSE IF ~create_lookups THEN LookupExit(d)
             ELSE LookupOk(insert(OrgIdOf(DefaultSlug)), OrgIdOf(DefaultSlug), TRUE)

\* ingest_datasets.py _ensure_cloud_account_for_provider, no --account-* or
\* --native-account-id-* given; it takes no dry_run and commits what it creates
_ensure_cloud_account_for_provider(d, organization_id, provider, create_lookups) ==
    LET native_id == NativeId(provider)
        exact == {a \in d.cloud_accounts : /\ a.organization_id = organization_id
                                           /\ a.provider = provider
                                           /\ a.account_id = native_id}
        rows == {a \in d.cloud_accounts : /\ a.organization_id = organization_id
                                          /\ a.provider = provider}
        stable_id == uuid5("NAMESPACE_CLOUD_ACCOUNT", <<organization_id, provider, native_id>>)
    IN  IF exact # {} THEN LookupOk(d, (CHOOSE a \in exact : TRUE).id, FALSE)
        ELSE IF Cardinality(rows) = 1 THEN LookupOk(d, (CHOOSE a \in rows : TRUE).id, FALSE)
        ELSE IF ~create_lookups THEN LookupExit(d)
        ELSE LookupOk([d EXCEPT !.cloud_accounts =
                          @ \cup {[id |-> stable_id, organization_id |-> organization_id,
                                   provider |-> provider, account_id |-> native_id]}],
                      stable_id, TRUE)

\* the loop of _resolve_org_and_accounts over providers_needed, from position k
RECURSIVE EnsureAccounts(_, _, _, _, _)
EnsureAccounts(acc, organization_id, providers_needed, create_lookups, k) ==
    IF k > Len(providers_needed) \/ acc.exit THEN acc
    ELSE LET r == _ensure_cloud_account_for_provider(acc.db, organization_id,
                                                     providers_needed[k], create_lookups)
         IN  EnsureAccounts([exit |-> r.exit, db |-> r.db,
                             accounts |-> [acc.accounts EXCEPT ![providers_needed[k]] = r.id],
                             created |-> acc.created + (IF r.created THEN 1 ELSE 0)],
                            organization_id, providers_needed, create_lookups, k + 1)

\* ingest_datasets.py _resolve_org_and_accounts
_resolve_org_and_accounts(d, args, providers_needed) ==
    LET o == _ensure_organization(d, args.organization_id, args.create_lookups)
    IN  IF o.exit
        THEN [exit |-> TRUE, db |-> o.db, org_id |-> None, accounts |-> NoAccounts,
              orgs_created |-> 0, accounts_created |-> 0]
        ELSE LET a == EnsureAccounts([exit |-> FALSE, db |-> o.db, accounts |-> NoAccounts,
                                      created |-> 0],
                                     ValueOf(o.id), providers_needed, args.create_lookups, 1)
             IN  [exit |-> a.exit, db |-> a.db, org_id |-> o.id, accounts |-> a.accounts,
                  orgs_created |-> IF o.created THEN 1 ELSE 0,
                  accounts_created |-> a.created]

\* the row of a resources file: its required fields are present or one is
\* missing; cost_daily and launch_time (a day) may be absent; refused marks a
\* row whose statement the store refuses (a value its column does not admit)
ResourceRows ==
    {[resource_id |-> Some("r1"), state |-> Some("running"), cost_daily |-> Some(1),
      launch_time |-> None, refused |-> FALSE],
     [resource_id |-> Some("r1"), state |-> Some("running"), cost_daily |-> Some(1),
      launch_time |-> Some(1), refused |-> FALSE],
     [resource_id |-> Some("r2"), state |-> Some("running"), cost_daily |-> None,
      launch_time |-> None, refused |-> FALSE],
     [resource_id |-> Some("r2"), state |-> None, cost_daily |-> Some(1),
      launch_time |-> None, refused |-> FALSE],
     [resource_id |-> Some("r3"), state |-> Some("running"), cost_daily |-> None,
      launch_time |-> None, refused |-> TRUE]}

\* the row of a recommendations file
RecommendationRows ==
    {[recommendation_id |-> None, resource_id |-> Some("r1"), description |-> Some("d"),
      refused |-> FALSE],
     [recommendation_id |-> Some("x1"), resource_id |-> None, description |-> None,
      refused |-> FALSE],
     [recommendation_id |-> None, resource_id |-> None, description |-> None,
      refused |-> TRUE]}

\* the outcome of the rows of a file so far: the connection's view of the
\* store, the file's counts, and whether a statement raised
RowsStart(view) == [view |-> view, rep |-> NoReports, failed |-> FALSE]

\* uuid.uuid4(), or the next value of a serial column: an id no stored row has
uuid4(rows) == Cardinality(rows) + 1

\* SQL_UPSERT_RESOURCE / the INSERT ... ON CONFLICT of _ingest_resources_xlsx:
\* the conflict target is (organization_id, provider, resource_id) in
\* ingest_datasets.py and (cloud_account_id, resource_id) in the step-2 loader;
\* created_at is written by the insert only
UpsertResource(script, view, organization_id, cloud_account_id, provider, r, created_at) ==
    LET hit == {s \in view.resources :
                   /\ s.resource_id = ValueOf(r.resource_id)
                   /\ IF script = "ingest_datasets"
                      THEN s.organization_id = organization_id /\ s.provider = provider
                      ELSE s.cloud_account_id = cloud_account_id}
        cost == IF script = "ingest_datasets" THEN r.cost_daily ELSE None
    IN  IF hit # {}
        THEN LET old == CHOOSE s \in hit : TRUE
                 new == [old EXCEPT !.organization_id = organization_id,
                                    !.cloud_account_id = cloud_account_id,
                                    !.provider = provider,
                                    !.state = ValueOf(r.state),
                                    !.cost_daily = cost]
             IN  [view |-> [view EXCEPT !.resources = (@ \ {old}) \cup {new}],
                  id |-> old.id, inserted |-> FALSE]
        ELSE LET id == uuid4(view.resources)
             IN  [view |-> [view EXCEPT !.resources =
                               @ \cup {[id |-> id, organization_id |-> organization_id,
                                        cloud_account_id |-> cloud_account_id,
                                        provider |-> provider,
                                        resource_id |-> ValueOf(r.resource_id),
                                        state |-> ValueOf(r.state), cost_daily |-> cost,
                                        created_at |-> created_at]}],
                  id |-> id, inserted |-> TRUE]

\* _resource_cost_daily_row_payload: stable_id
CostDailyId(organization_id, internal_resource_id, cost_day) ==
    uuid5("NAMESPACE_RESOURCE_COST_DAILY", <<organization_id, internal_resource_id, cost_day>>)

\* _upsert_resource_costs_daily with an id column (ON CONFLICT (id)), and the
\* step-2 loader's INSERT ... ON CONFLICT (resource_id, usage_date) with a serial id
UpsertCostDaily(script, view, organization_id, internal_resource_id, cost_day, cost_daily) ==
    LET stable_id == CostDailyId(organization_id, internal_resource_id, cost_day)
        hit == {s \in view.resource_costs_daily :
                   IF script = "ingest_datasets" THEN s.id = stable_id
                   ELSE s.resource_id = internal_resource_id /\ s.cost_date = cost_day}
    IN  IF hit # {}
        THEN LET old == CHOOSE s \in hit : TRUE
                 new == [old EXCEPT !.organization_id = organization_id,
                                    !.cost_daily = cost_daily]
             IN  [view |-> [view EXCEPT !.resource_costs_daily = (@ \ {old}) \cup {new}],
                  inserted |-> FALSE]
        ELSE [view |-> [view EXCEPT !.resource_costs_daily =
                           @ \cup {[id |-> IF script = "ingest_datasets" THEN stable_id
                                           ELSE uuid4(view.resource_costs_daily),
                                    organization_id |-> organization_id,
                                    resource_id |-> internal_resource_id,
                                    cost_date |-> cost_day, cost_daily |-> cost_daily]}],
              inserted |-> TRUE]

\* a row of the resources file lacks a required field
MissingRequired(r) == r.resource_id = None \/ r.state = None

\* launch_time or created_at or _now_utc(), as a day
CreatedAt(r, day) == IF r.launch_time # None THEN ValueOf(r.launch_time) ELSE day

\* one pass of the row loop of ingest_datasets.py _ingest_resources_file
\* the existence check that finds no row
ResourceExists_Never(view, organization_id, provider, resource_id) == FALSE

\* SELECT 1 FROM resources WHERE organization_id=%s AND provider=%s AND resource_id=%s
ResourceExists(view, organization_id, provider, resource_id) ==
    \E s \in view.resources :
        /\ s.organization_id = organization_id
        /\ s.provider = provider
        /\ s.resource_id = resource_id

ResourceRow(acc, cfg, provider, cloud_account_id, r, day) ==
    IF MissingRequired(r) THEN [acc EXCEPT !.rep = Count(@, "resources", "skipped")]
    ELSE IF cfg.dry_run
    THEN LET found == ResourceExists(acc.view, cfg.organization_id, provider,
                                     ValueOf(r.resource_id))
             rep1 == Count(acc.rep, "resources", IF found THEN "updated" ELSE "inserted")
         IN  [acc EXCEPT !.rep =
                 IF r.cost_daily # None
                 THEN Count(rep1, "resource_costs_daily",
                            IF cfg.has_resource_costs_daily THEN "inserted" ELSE "skipped")
                 ELSE rep1]
    ELSE IF r.refused THEN [acc EXCEPT !.failed = TRUE]
    ELSE LET u == UpsertResource("ingest_datasets", acc.view, cfg.organization_id,
                                 cloud_account_id, provider, r, CreatedAt(r, day))
             rep1 == Count(acc.rep, "resources", IF u.inserted THEN "inserted" ELSE "updated")
         IN  IF cfg.has_resource_costs_daily /\ r.cost_daily # None
             THEN LET c == UpsertCostDaily("ingest_datasets", u.view, cfg.organization_id,
                                           u.id, CreatedAt(r, day), ValueOf(r.cost_daily))
                  IN  [acc EXCEPT !.view = c.view,
                                  !.rep = Count(rep1, "resource_costs_daily",
                                                IF c.inserted THEN "inserted" ELSE "updated")]
             ELSE [acc EXCEPT !.view = u.view, !.rep = rep1]

RECURSIVE ResourceRowsFrom(_, _, _, _, _, _, _)
ResourceRowsFrom(acc, cfg, provider, cloud_account_id, rows, day, k) ==
    IF k > Len(rows) \/ acc.failed THEN acc
    ELSE ResourceRowsFrom(ResourceRow(acc, cfg, provider, cloud_account_id, rows[k], day),
                          cfg, provider, cloud_account_id, rows, day, k + 1)

\* ingest_datasets.py _ingest_resources_file: the outcome and whether it committed
_ingest_resources_file(view, cfg, file, day) ==
    LET start == RowsStart(view)
        cloud_account_id == cfg.account_by_provider[file.provider]
    IN  IF Len(file.rows) = 0 THEN [out |-> start, commit |-> FALSE]
        ELSE IF cloud_account_id = None
        THEN [out |-> [start EXCEPT !.rep = CountBy(@, "resources", "skipped", Len(file.rows))],
              commit |-> FALSE]
        ELSE [out |-> ResourceRowsFrom(start, cfg, file.provider, ValueOf(cloud_account_id),
                                       file.rows, day, 1),
              commit |-> ~cfg.dry_run]

\* a text of one piece, or None
TextOrNone(v) == IF v = None THEN None ELSE Some(<<ValueOf(v)>>)

\* the id of a recommendation row: its own id, or the derived one
\* (ingest_datasets.py); _stable_recommendation_uuid of the row (step-2 loader)
RecommendationId(cfg, provider, r) ==
    IF cfg.script = "ingest_datasets"
    THEN IF r.recommendation_id # None
         THEN [namespace |-> "none", name |-> <<ValueOf(r.recommendation_id)>>]
         ELSE _stable_recommendation_id(<<cfg.organization_id.name>>, <<provider>>,
                                        TextOrNone(r.resource_id), <<"General">>,
                                        TextOrNone(r.description))
    ELSE _stable_recommendation_uuid(<<cfg.organization_id.name>>, <<provider>>,
                                     TextOrNone(r.recommendation_id),
                                     [recommendation_id |-> TextOrNone(r.recommendation_id),
                                      resource_id |-> TextOrNone(r.resource_id),
                                      recommendation_type |-> None,
                                      description |-> TextOrNone(r.description)])

\* SQL_FIND_RESOURCE_INTERNAL_ID; _find_resource_internal_id of the step-2
\* loader also matches the cloud account of the provider
InternalResourceId(view, cfg, provider, external_res_id) ==
    LET hit == {s \in view.resources :
                   /\ s.organization_id = cfg.organization_id
                   /\ s.provider = provider
                   /\ Some(s.resource_id) = external_res_id
                   /\ cfg.script = "ingest_step2_2_to_2_5" =>
                          Some(s.cloud_account_id) = cfg.account_by_provider[provider]}
    IN  IF hit = {} THEN None ELSE Some((CHOOSE s \in hit : TRUE).id)

\* SQL_UPSERT_RECOMMENDATION: ON CONFLICT (id)
UpsertRecommendation(view, id, organization_id, resource_id, description) ==
    LET hit == {s \in view.recommendations : s.id = id}
        new == [id |-> id, organization_id |-> organization_id, resource_id |-> resource_id,
                description |-> description]
    IN  [view |-> [view EXCEPT !.recommendations = (@ \ hit) \cup {new}],
         inserted |-> hit = {}]

\* one pass of the row loop of _ingest_recommendations_file / _ingest_recommendations_xlsx
RecommendationRow(acc, cfg, provider, r) ==
    LET rid == RecommendationId(cfg, provider, r)
    IN  IF cfg.dry_run
        THEN [acc EXCEPT !.rep = Count(@, "recommendations",
                                       IF \E s \in acc.view.recommendations : s.id = rid
                                       THEN "updated" ELSE "inserted")]
        ELSE IF r.refused THEN [acc EXCEPT !.failed = TRUE]
        ELSE LET u == UpsertRecommendation(acc.view, rid, cfg.organization_id,
                                           InternalResourceId(acc.view, cfg, provider,
                                                              r.resource_id),
                                           r.description)
             IN  [acc EXCEPT !.view = u.view,
                             !.rep = Count(@, "recommendations",
                                           IF u.inserted THEN "inserted" ELSE "updated")]

RECURSIVE RecommendationRowsFrom(_, _, _, _, _)
RecommendationRowsFrom(acc, cfg, provider, rows, k) ==
    IF k > Len(rows) \/ acc.failed THEN acc
    ELSE RecommendationRowsFrom(RecommendationRow(acc, cfg, provider, rows[k]),
                                cfg, provider, rows, k + 1)

\* _ingest_recommendations_file: the provider of a row without a provider
\* column is the one in the file name, or "aws"
_ingest_recommendations_file(view, cfg, file) ==
    IF Len(file.rows) = 0 THEN [out |-> RowsStart(view), commit |-> FALSE]
    ELSE [out |-> RecommendationRowsFrom(RowsStart(view), cfg, "aws", file.rows, 1),
          commit |-> ~cfg.dry_run]

\* _upsert_org of the step-2 loader: ON CONFLICT (slug); the store gives the id
_upsert_org(d, slug) ==
    LET hit == {o \in d.organizations : o.slug = slug}
        id == [namespace |-> "none", name |-> slug]
    IN  IF hit # {} THEN LookupOk(d, (CHOOSE o \in hit : TRUE).id, FALSE)
        ELSE LookupOk([d EXCEPT !.organizations = @ \cup {[id |-> id, slug |-> slug]}],
                      id, TRUE)

\* _upsert_cloud_account of the step-2 loader:
\* ON CONFLICT (organization_id, provider, account_external_id)
_upsert_cloud_account(d, organization_id, provider) ==
    LET hit == {a \in d.cloud_accounts : /\ a.organization_id = organization_id
                                         /\ a.provider = provider
                                         /\ a.account_id = NativeId(provider)}
        id == [namespace |-> "none", name |-> <<organization_id, provider, NativeId(provider)>>]
    IN  IF hit # {} THEN LookupOk(d, (CHOOSE a \in hit : TRUE).id, FALSE)
        ELSE LookupOk([d EXCEPT !.cloud_accounts =
                          @ \cup {[id |-> id, organization_id |-> organization_id,
                                   provider |-> provider, account_id |-> NativeId(provider)]}],
                      id, TRUE)

\* the lookup upserts of the step-2 loader's run, committed before the files
RECURSIVE UpsertAccounts(_, _, _, _)
UpsertAccounts(acc, organization_id, providers, k) ==
    IF k > Len(providers) THEN acc
    ELSE LET r == _upsert_cloud_account(acc.db, organization_id, providers[k])
         IN  UpsertAccounts([db |-> r.db,
                             accounts |-> [acc.accounts EXCEPT ![providers[k]] = r.id],
                             created |-> acc.created + (IF r.created THEN 1 ELSE 0)],
                            organization_id, providers, k + 1)

\* one pass of the row loop of _ingest_resources_xlsx
ResourceRowXlsx(acc, cfg, provider, cloud_account_id, r, day) ==
    IF MissingRequired(r)
    THEN [acc EXCEPT !.rep = Count(Count(@, "resources", "skipped"),
                                   "resource_costs_daily", "skipped")]
    ELSE IF r.refused THEN [acc EXCEPT !.failed = TRUE]
    ELSE LET u == UpsertResource("ingest_step2_2_to_2_5", acc.view, cfg.organization_id,
                                 cloud_account_id, provider, r, CreatedAt(r, day))
             rep1 == Count(acc.rep, "resources", IF u.inserted THEN "inserted" ELSE "updated")
         IN  IF ~cfg.has_resource_costs_daily \/ r.cost_daily = None
             THEN [acc EXCEPT !.view = u.view,
                              !.rep = Count(rep1, "resource_costs_daily", "skipped")]
             ELSE LET c == UpsertCostDaily("ingest_step2_2_to_2_5", u.view,
                                           cfg.organization_id, u.id, CreatedAt(r, day),
                                           ValueOf(r.cost_daily))
                  IN  [acc EXCEPT !.view = c.view,
                                  !.rep = Count(rep1, "resource_costs_daily",
                                                IF c.inserted THEN "inserted" ELSE "updated")]

RECURSIVE ResourceRowsXlsxFrom(_, _, _, _, _, _, _)
ResourceRowsXlsxFrom(acc, cfg, provider, cloud_account_id, rows, day, k) ==
    IF k > Len(rows) \/ acc.failed THEN acc
    ELSE ResourceRowsXlsxFrom(ResourceRowXlsx(acc, cfg, provider, cloud_account_id, rows[k], day),
                              cfg, provider, cloud_account_id, rows, day, k + 1)

\* _ingest_resources_xlsx: commits unless the file has no rows
_ingest_resources_xlsx(view, cfg, file, day) ==
    IF Len(file.rows) = 0 THEN [out |-> RowsStart(view), commit |-> FALSE]
    ELSE [out |-> ResourceRowsXlsxFrom(RowsStart(view), cfg, file.provider,
                                       ValueOf(cfg.account_by_provider[file.provider]),
                                       file.rows, day, 1),
          commit |-> TRUE]

\* _ingest_recommendations_xlsx
_ingest_recommendations_xlsx(view, cfg, file) ==
    IF Len(file.rows) = 0 THEN [out |-> RowsStart(view), commit |-> FALSE]
    ELSE [out |-> RecommendationRowsFrom(RowsStart(view), cfg, "aws", file.rows, 1),
          commit |-> TRUE]

\* the ingestion of one file by the script at hand
IngestOne(view, cfg, file, day) ==
    IF cfg.script = "ingest_datasets"
    THEN IF file.kind = "resources" THEN _ingest_resources_file(view, cfg, file, day)
         ELSE _ingest_recommendations_file(view, cfg, file)
    ELSE IF file.kind = "resources" THEN _ingest_resources_xlsx(view, cfg, file, day)
         ELSE _ingest_recommendations_xlsx(view, cfg, file)

InitialDbs ==
    {NoDb,
     [NoDb EXCEPT !.organizations = {[id |-> OrgOne, slug |-> DefaultSlug]}],
     [NoDb EXCEPT !.organizations = {[id |-> OrgOne, slug |-> "acme"],
                                     [id |-> OrgTwo, slug |-> "other"]}]}

ResourceFile(provider, rows) == [kind |-> "resources", provider |-> provider, rows |-> rows]

RecommendationFile(rows) == [kind |-> "recommendations", provider |-> "none", rows |-> rows]

\* the *.xlsx files of the input directory, resource files first, sorted by
\* name (ingest_datasets.py), and the four files the step-2 loader is given
FileLists(script) ==
    LET aws == {ResourceFile("aws", rows) : rows \in SeqsUpTo(ResourceRows, MaxRows)}
        azure == {ResourceFile("azure", rows) :
                     rows \in {<<>>} \cup {<<r>> : r \in {q \in ResourceRows : q.cost_daily = None}}}
        rec == {RecommendationFile(rows) : rows \in SeqsUpTo(RecommendationRows, 1)}
    IN  IF script = "ingest_datasets"
        THEN {<<>>} \cup {<<a>> : a \in aws} \cup {<<a, c>> : a \in aws, c \in rec}
                 \cup {<<a, b, c>> : a \in aws, b \in azure, c \in rec}
        ELSE {<<a, b, ResourceFile("gcp", <<>>), c>> : a \in aws, b \in azure, c \in rec}

\* the slice of the lookup cases and the slice of the file cases
\* the store an earlier real run of ingest_datasets.py left: the default
\* organization, its aws account, resource r1 and its cost of the day
SeededDb ==
    LET args == [organization_id |-> None, create_lookups |-> TRUE, input_dir_exists |-> TRUE]
        r == _resolve_org_and_accounts(NoDb, args, <<"aws">>)
        cfg == [script |-> "ingest_datasets", organization_id |-> ValueOf(r.org_id),
                account_by_provider |-> r.accounts, dry_run |-> FALSE,
                has_resource_costs_daily |-> TRUE]
        row == [resource_id |-> Some("r1"), state |-> Some("running"), cost_daily |-> Some(1),
                launch_time |-> None, refused |-> FALSE]
    IN  _ingest_resources_file(r.db, cfg, ResourceFile("aws", <<row>>), 1).out.view

LoaderInputs ==
    {[script |-> "ingest_datasets", args |-> a, has_rcd |-> TRUE, d |-> d,
      files |-> <<ResourceFile("aws", <<r>>)>>] :
        a \in [organization_id : {None, Some(OrgOne)}, create_lookups : BOOLEAN,
               input_dir_exists : BOOLEAN],
        d \in InitialDbs,
        r \in {q \in ResourceRows : q.launch_time # None}}
    \cup
    {[script |-> s, args |-> [organization_id |-> None, create_lookups |-> TRUE,
                              input_dir_exists |-> TRUE],
      has_rcd |-> h, d |-> NoDb, files |-> f] :
        s \in Scripts, h \in BOOLEAN, f \in UNION {FileLists(x) : x \in Scripts}}
    \cup
    {[script |-> "ingest_datasets",
      args |-> [organization_id |-> None, create_lookups |-> TRUE, input_dir_exists |-> TRUE],
      has_rcd |-> TRUE, d |-> SeededDb, files |-> <<ResourceFile("aws", rows)>>] :
        rows \in SeqsUpTo(ResourceRows, MaxRows)}

InitLoader ==
    /\ InitIngest({}, 0)
    /\ lookup = NoLookup
    /\ derive = NoDerive
    /\ NoActivity
    /\ today = 1
    /\ \E in \in LoaderInputs :
          /\ in.files \in FileLists(in.script)
          /\ db = in.d
          /\ loader = [NoRun EXCEPT !.script = in.script, !.args = in.args,
                                    !.has_rcd = in.has_rcd, !.files = in.files,
                                    !.pc = "idle"]

\* a finished run as the history keeps it
Finished(l, d, exit) ==
    [dry_run |-> l.cfg.dry_run, cfg |-> l.cfg, before |-> l.before, after |-> d, totals |-> l.totals,
     created |-> l.created, outcomes |-> l.outcomes, exit |-> exit]

EndRun(l, d, exit) ==
    [l EXCEPT !.pc = "idle", !.run = @ + 1, !.conn = d,
              !.hist = Append(@, Finished(l, d, exit))]

\* ingest_datasets.py run(), up to the file loops: input directory, file
\* discovery, connection, _resolve_org_and_accounts
DatasetsRun(dry_run) ==
    /\ loader.pc = "idle" /\ loader.script = "ingest_datasets" /\ loader.run < MaxRuns
    /\ LET resource_files == SelectSeq(loader.files, LAMBDA f : f.kind = "resources")
           providers_needed == SortedProviders({resource_files[k].provider :
                                                   k \in 1..Len(resource_files)})
           r == _resolve_org_and_accounts(db, loader.args, providers_needed)
           l0 == [loader EXCEPT !.before = db, !.conn = db, !.totals = NoReports,
                                !.outcomes = <<>>, !.created = <<0, 0>>, !.i = 1,
                                !.cfg = [NoCfg EXCEPT !.script = "ingest_datasets",
                                                      !.dry_run = dry_run]]
       IN  IF ~loader.args.input_dir_exists THEN loader' = EndRun(l0, db, 2) /\ db' = db
           ELSE IF Len(loader.files) = 0 THEN loader' = EndRun(l0, db, 0) /\ db' = db
           ELSE IF r.exit THEN loader' = EndRun(l0, r.db, 1) /\ db' = r.db
           ELSE /\ db' = r.db
                /\ loader' = [l0 EXCEPT !.pc = "files", !.conn = r.db,
                                        !.created = <<r.orgs_created, r.accounts_created>>,
                                        !.cfg = [script |-> "ingest_datasets",
                                                 organization_id |-> ValueOf(r.org_id),
                                                 account_by_provider |-> r.accounts,
                                                 dry_run |-> dry_run,
                                                 has_resource_costs_daily |-> loader.has_rcd]]
    /\ UNCHANGED <<inside, lookup, derive, today, manager, sockets>>

\* what the handling of one file leaves behind
Outcome(failed, before, after, view, rep) ==
    [failed |-> failed, before |-> before, after |-> after, view |-> view, rep |-> rep]

\* one pass of a file loop of ingest_datasets.py run(): the file is ingested
\* and its counts are added, or the exception is caught and the connection
\* rolled back
DatasetsFile ==
    /\ loader.pc = "files" /\ loader.script = "ingest_datasets"
    /\ loader.i <= Len(loader.files)
    /\ LET r == IngestOne(loader.conn, loader.cfg, loader.files[loader.i], today)
           d == IF ~r.out.failed /\ r.commit THEN r.out.view ELSE db
           view == IF r.out.failed THEN db ELSE r.out.view
       IN  /\ db' = d
           /\ loader' = [loader EXCEPT
                  !.i = @ + 1, !.conn = view,
                  !.totals = IF r.out.failed THEN @ ELSE AddReports(@, r.out.rep),
                  !.outcomes = Append(@, Outcome(r.out.failed, db, d, view, r.out.rep))]
    /\ UNCHANGED <<inside, lookup, derive, today, manager, sockets>>

\* the import report of ingest_datasets.py run() and its return 0; leaving
\* the connection block commits
DatasetsReport ==
    /\ loader.pc = "files" /\ loader.script = "ingest_datasets"
    /\ loader.i > Len(loader.files)
    /\ db' = loader.conn
    /\ loader' = EndRun(loader, loader.conn, 0)
    /\ UNCHANGED <<inside, lookup, derive, today, manager, sockets>>

\* ingest_step2_2_to_2_5.py run(), up to the files: the lookup upserts and their commit
Step2Run ==
    /\ loader.pc = "idle" /\ loader.script = "ingest_step2_2_to_2_5" /\ loader.run < MaxRuns
    /\ LET o == _upsert_org(db, DemoSlug)
           a == UpsertAccounts([db |-> o.db, accounts |-> NoAccounts, created |-> 0],
                               ValueOf(o.id), <<"aws", "azure", "gcp">>, 1)
       IN  /\ db' = a.db
           /\ loader' = [loader EXCEPT
                  !.pc = "files", !.before = db, !.conn = a.db, !.totals = NoReports,
                  !.outcomes = <<>>, !.i = 1,
                  !.created = <<IF o.created THEN 1 ELSE 0, a.created>>,
                  !.cfg = [script |-> "ingest_step2_2_to_2_5",
                           organization_id |-> ValueOf(o.id),
                           account_by_provider |-> a.accounts, dry_run |-> FALSE,
                           has_resource_costs_daily |-> loader.has_rcd]]
    /\ UNCHANGED <<inside, lookup, derive, today, manager, sockets>>

\* one file of ingest_step2_2_to_2_5.py run(): nothing catches an exception of
\* _ingest_resources_xlsx or _ingest_recommendations_xlsx, so it leaves the
\* connection block (which rolls back) and ends the process
\* totals of the step-2 report: the file reports summed table by table
RECURSIVE _sum_table_counts(_)
_sum_table_counts(reports) ==
    IF reports = <<>> THEN NoReports
    ELSE AddReports(_sum_table_counts(SubSeq(reports, 1, Len(reports) - 1)),
                    reports[Len(reports)].rep)

Step2File ==
    /\ loader.pc = "files" /\ loader.script = "ingest_step2_2_to_2_5"
    /\ loader.i <= Len(loader.files)
    /\ LET r == IngestOne(loader.conn, loader.cfg, loader.files[loader.i], today)
           d == IF ~r.out.failed /\ r.commit THEN r.out.view ELSE db
           view == IF r.out.failed THEN db ELSE r.out.view
           l1 == [loader EXCEPT
                     !.i = @ + 1, !.conn = view,
                     !.outcomes = Append(@, Outcome(r.out.failed, db, d, view, r.out.rep))]
       IN  /\ db' = d
           /\ loader' = IF r.out.failed THEN EndRun(l1, d, 1) ELSE l1
    /\ UNCHANGED <<inside, lookup, derive, today, manager, sockets>>

\* the reports of ingest_step2_2_to_2_5.py run() and its return 0
Step2Report ==
    /\ loader.pc = "files" /\ loader.script = "ingest_step2_2_to_2_5"
    /\ loader.i > Len(loader.files)
    /\ db' = loader.conn
    /\ loader' = EndRun([loader EXCEPT !.totals = _sum_table_counts(loader.outcomes)],
                        loader.conn, 0)
    /\ UNCHANGED <<inside, lookup, derive, today, manager, sockets>>

\* midnight passes
NextDay ==
    /\ loader.pc # "off"
    /\ today < MaxDay
    /\ today' = today + 1
    /\ UNCHANGED <<inside, lookup, derive, db, loader, manager, sockets>>

NextLoader ==
    \/ \E dry_run \in BOOLEAN : DatasetsRun(dry_run)
    \/ DatasetsFile
    \/ DatasetsReport
    \/ Step2Run
    \/ Step2File
    \/ Step2Report
    \/ NextDay

SpecLoader == InitLoader /\ [][NextLoader]_vars

----------------------------------------------------------------------------
(* Clients of the activity stream *)

WsOrganizations == {"org-1", "org-2"}
WsUsers == {"u1"}
Tokens == {"valid", "invalid", "missing"}

\* ActivityConnectionManager.connect after websocket.accept(): the manager
\* it leaves, whether it raised, and the old connection it closed
connect(m, w, organization_id, user_id) ==
    LET key == <<organization_id, user_id>>
        old == IF key \in DOMAIN m._by_org_user THEN {m._by_org_user[key]} ELSE {}
        read == IF old # {} THEN Touched(m._org_conns, organization_id) ELSE m._org_conns
        discarded == IF old # {} /\ ConnMetaHashable
                     THEN [read EXCEPT ![organization_id] = @ \ old] ELSE read
        conns == Touched(discarded, organization_id)
    IN  IF ~ConnMetaHashable
        THEN [raised |-> TRUE, closed |-> old, manager |-> [m EXCEPT !._org_conns = conns]]
        ELSE [raised |-> FALSE, closed |-> old,
              manager |-> [_org_conns |-> [conns EXCEPT ![organization_id] = @ \cup {w}],
                           _by_org_user |-> Put(m._by_org_user, key, w)]]

\* websocket_activity_stream up to its receive loop: a missing or invalid
\* token closes the websocket with 1008; otherwise connect() accepts and
\* registers it, starts the ping task and sends 'connected'.  An exception of
\* connect() leaves the handler with meta = None, so nothing is disconnected.
websocket_activity_stream(w, organization_id, user_id, token) ==
    /\ sockets[w].state = "none"
    /\ LET asked == [sockets[w] EXCEPT !.organization_id = organization_id,
                                       !.user_id = user_id, !.token = token]
           r == connect(manager, w, organization_id, user_id)
       IN  IF token # "valid"
           THEN /\ sockets' = [sockets EXCEPT ![w] = [asked EXCEPT !.state = "closed_1008"]]
                /\ manager' = manager
           ELSE /\ manager' = r.manager
                /\ sockets' =
                     [x \in Sockets |->
                        IF x = w
                        THEN IF r.raised THEN [asked EXCEPT !.state = "error"]
                             ELSE _safe_send([asked EXCEPT !.state = "open",
                                                           !.ping_task = TRUE],
                                             make_event("connected", organization_id, 0))
                        ELSE IF x \in r.closed /\ sockets[x].state = "open"
                             THEN [sockets[x] EXCEPT !.state = "closed_1000"]
                             ELSE sockets[x]]
    /\ UNCHANGED <<inside, lookup, derive, db, today, loader>>

\* the bulk endpoints with clients of the activity stream around them
InitActivity ==
    /\ InitIngest({"c1"}, 1)
    /\ lookup = NoLookup
    /\ derive = NoDerive
    /\ NoLoader
    /\ NoActivity

NextActivity ==
    \/ Next
    \/ \E w \in Sockets, organization_id \in WsOrganizations, user_id \in WsUsers,
          token \in Tokens :
            websocket_activity_stream(w, organization_id, user_id, token)

SpecActivity == InitActivity /\ [][NextActivity]_vars

----------------------------------------------------------------------------
(* Properties of the bulk endpoints *)

\* the handler of client c has ended and its outcome is at hand
Done(c) == pc[c] = "respond"

Ok(c) == Done(c) /\ resp[c].status = "200"

\* the request's table as committed when the request arrived, and as it is now
PreTable(c) == IF req[c].kind = "resources" THEN pre[c].resources ELSE pre[c].costs

PostTable(c) == Table(req[c].kind)

RowsOfKey(kind, table, k) == {r \in table : KeyOf(kind, r) = k}

KeysOf(kind, table) == {KeyOf(kind, r) : r \in table}

InvalidIndexes(kind, items) ==
    {i - 1 : i \in {j \in 1..Len(items) : ItemError(kind, items[j]) # ""}}

SomeInvalid(c) == InvalidIndexes(req[c].kind, req[c].items) # {}

AllInvalid(c) ==
    Cardinality(InvalidIndexes(req[c].kind, req[c].items)) = Len(req[c].items)

\* the replace_fields of the Resource upsert agree between a stored row and a submitted one
SameResourceFields(row, v) ==
    /\ row.cloud_account_id = v.cloud_account_id
    /\ row.resource_type = v.resource_type
    /\ row.region = v.region
    /\ row.state = v.state
    /\ row.tags = v.tags
    /\ row.cost_daily = v.cost_daily
    /\ row.cost_monthly = v.cost_monthly

\* the replace_fields of the Cost upsert agree between a stored row and a submitted one
SameCostFields(row, v) ==
    /\ row.usage_quantity = v.usage_quantity
    /\ row.usage_unit = v.usage_unit
    /\ row.cost_amount = v.cost_amount
    /\ row.currency = v.currency

SameFields(kind, row, v) ==
    IF kind = "resources" THEN SameResourceFields(row, v) ELSE SameCostFields(row, v)

\* C1: after any sequence of POST /resources/bulk calls, at most one Resource
\* row exists for every (organization_id, provider, resource_id) triple.
C1_NaturalKeyUnique ==
    \A r1, r2 \in resources :
        _resource_key_tuple(r1) = _resource_key_tuple(r2) => r1 = r2

\* a second batch has hit a stored key and the table still holds one row for it
C1_Witness ==
    \E c \in Clients :
        /\ Ok(c) /\ req[c].kind = "resources"
        /\ resp[c].updated = 1
        /\ \E row \in Range(req[c].rows) :
             /\ RowsOfKey("resources", pre[c].resources, _resource_key_tuple(row)) # {}
             /\ Cardinality(RowsOfKey("resources", resources, _resource_key_tuple(row))) = 1

C3_CostReplace ==
    \A c \in Clients :
        (Ok(c) /\ req[c].kind = "costs") =>
            \A v \in LastPerKey("costs", req[c].rows) :
                LET stored == RowsOfKey("costs", costs, _cost_key_tuple(v))
                IN  /\ Cardinality(stored) = 1
                    /\ \A r \in stored : SameCostFields(r, v)

\* a stored cost of 55 was ingested again with 70
C3_Witness ==
    \E c \in Clients :
        /\ Ok(c) /\ req[c].kind = "costs"
        /\ \E v \in Range(req[c].rows), p \in pre[c].costs, r \in costs :
             /\ _cost_key_tuple(p) = _cost_key_tuple(v)
             /\ _cost_key_tuple(r) = _cost_key_tuple(v)
             /\ p.cost_amount = 55 /\ v.cost_amount = 70 /\ r.cost_amount = 70

\* what C4 promises of a finished call
PartialSuccess(c) ==
    /\ resp[c].status = "200"
    /\ {resp[c].errors[i].index : i \in 1..Len(resp[c].errors)}
           = InvalidIndexes(req[c].kind, req[c].items)
    /\ Len(resp[c].errors) = Cardinality(InvalidIndexes(req[c].kind, req[c].items))
    /\ resp[c].inserted + resp[c].updated
           = Len(req[c].items) - Cardinality(InvalidIndexes(req[c].kind, req[c].items))

C5_AllInvalidRejected ==
    \A c \in Clients :
        (Done(c) /\ AllInvalid(c)) =>
            /\ resp[c].status = "400"
            /\ resp[c].body = "BulkIngestResponse"
            /\ resp[c].inserted = 0 /\ resp[c].updated = 0
            /\ Len(resp[c].errors) = Len(req[c].items)
            /\ resources = pre[c].resources /\ costs = pre[c].costs

\* two invalid items were rejected while the table already held a row
C5_Witness ==
    \E c \in Clients :
        /\ Done(c) /\ AllInvalid(c) /\ Len(req[c].items) = 2
        /\ resp[c].status = "400" /\ Len(resp[c].errors) = 2
        /\ PreTable(c) # {}

\* the statement of the request is one the storage layer refuses for a reason
\* other than the natural-key conflict: a foreign key points nowhere
RefusedByStorage(c) ==
    /\ dialect = "postgresql"
    /\ \E i \in 1..Len(req[c].rows) :
         \/ req[c].rows[i].organization_id \notin Organizations
         \/ req[c].rows[i].cloud_account_id \notin CloudAccounts

\* C6: when the batched upsert fails for another reason than the natural-key
\* conflict, or the request is cancelled before commit, no row of the batch is
\* inserted or updated and the failure is one of the whole batch, not an entry
\* of the errors list.
C6_BatchAtomicity ==
    \A c \in Clients :
        (Done(c) /\ req[c].rows # <<>>
                 /\ (RefusedByStorage(c) \/ resp[c].status \in {"500", "cancelled"})) =>
            /\ resp[c].status \in {"500", "cancelled"}
            /\ resp[c].body = "exception"
            /\ resp[c].errors = <<>>
            /\ resources = pre[c].resources /\ costs = pre[c].costs

\* a batch of a good row and a row with a dangling cloud_account_id was refused
C6_Witness ==
    \E c \in Clients :
        /\ Done(c) /\ resp[c].status = "500" /\ RefusedByStorage(c)
        /\ Len(req[c].rows) = 2
        /\ \E i \in 1..2 : req[c].rows[i].cloud_account_id \in CloudAccounts

\* a request was cancelled after its lookup had found the key stored
C6_WitnessCancelled ==
    \E c \in Clients :
        /\ Done(c) /\ resp[c].status = "cancelled"
        /\ existing[c] # {}

\* C7: the updated count is the number of rows of the batch whose natural key
\* was stored before the write and the inserted count the number of rows whose
\* key was not, repeated keys included.
C7_InsertUpdateAccounting ==
    \A c \in Clients :
        Ok(c) =>
            LET kind == req[c].kind
                present == {i \in 1..Len(req[c].rows) :
                               KeyOf(kind, req[c].rows[i]) \in KeysOf(kind, PreTable(c))}
            IN  /\ resp[c].updated = Cardinality(present)
                /\ resp[c].inserted = Len(req[c].rows) - Cardinality(present)

\* no transaction is open: every call has finished
Quiescent == \A c \in Clients : pc[c] \in {"idle", "respond"}

\* C8: under any interleaving of concurrent bulk-ingest calls that write one
\* natural key, once all calls have finished exactly one row exists for the
\* key and its replace_fields are those submitted by the call whose write was
\* applied last.
C8_LastWriterWins ==
    Quiescent =>
        \A kind \in Kinds :
            \A v \in latest[kind] :
                LET stored == RowsOfKey(kind, Table(kind), KeyOf(kind, v))
                IN  /\ Cardinality(stored) = 1
                    /\ \A r \in stored : SameFields(kind, r, v)

\* two calls that both found the key absent have both committed a row for it,
\* with different values
C8_Witness ==
    /\ Ok("c1") /\ Ok("c2")
    /\ req["c1"].kind = "resources" /\ req["c2"].kind = "resources"
    /\ existing["c1"] = {} /\ existing["c2"] = {}
    /\ \E v1 \in Range(req["c1"].rows), v2 \in Range(req["c2"].rows) :
         /\ _resource_key_tuple(v1) = _resource_key_tuple(v2)
         /\ v1.state # v2.state

\* C9: when a resource upsert hits a stored natural key, the stored row keeps
\* its id, organization_id, provider, resource_id and created_at (whatever
\* created_at the new row supplies), and cloud_account_id, resource_type,
\* region, state, tags, cost_daily and cost_monthly take the supplied values.
C9_PreservedFields ==
    \A c \in Clients :
        (Ok(c) /\ req[c].kind = "resources") =>
            \A p \in pre[c].resources :
                \A v \in LastPerKey("resources", req[c].rows) :
                    _resource_key_tuple(p) = _resource_key_tuple(v) =>
                        \E r \in resources :
                            /\ r.id = p.id
                            /\ r.organization_id = p.organization_id
                            /\ r.provider = p.provider
                            /\ r.resource_id = p.resource_id
                            /\ r.created_at = p.created_at
                            /\ SameResourceFields(r, v)

\* a stored row was hit by a row that supplies another created_at and other values
C9_Witness ==
    \E c \in Clients :
        /\ Ok(c) /\ req[c].kind = "resources"
        /\ \E p \in pre[c].resources, v \in Range(req[c].rows), r \in resources :
             /\ _resource_key_tuple(p) = _resource_key_tuple(v)
             /\ r.id = p.id
             /\ v.created_at # None /\ ValueOf(v.created_at) # p.created_at
             /\ r.created_at = p.created_at
             /\ p.state # v.state /\ r.state = v.state

\* the statement of client c runs in this step and is not refused
Executes(c) == pc[c] = "write" /\ pc'[c] = "commit"

\* every stored row the statement of c hits carries the current time as updated_at
RefreshedBy(c) ==
    \A p \in Table(req[c].kind) :
        KeyOf(req[c].kind, p) \in Range(Keys(req[c].kind, req[c].rows)) =>
            \E w \in Merge(Table(req[c].kind), txw'[c]) :
                w.id = p.id /\ w.updated_at = now

\* no row's updated_at goes back in this step
NoStepBack(table, table2) ==
    \A r \in table : \A r2 \in table2 : r.id = r2.id => r2.updated_at >= r.updated_at

\* C10: every upsert that hits a stored natural key (resources and costs) sets
\* updated_at to the current server time, also when no other field changes;
\* a row's updated_at never decreases.
C10_UpdatedAtRefreshed ==
    [][ /\ \A c \in Clients : Executes(c) => RefreshedBy(c)
        /\ NoStepBack(resources, resources')
        /\ NoStepBack(costs, costs') ]_vars

\* a row was ingested again with the same values and its updated_at moved on
C10_Witness ==
    \E c \in Clients :
        /\ Ok(c)
        /\ \E p \in PreTable(c), r \in PostTable(c) :
             /\ r.id = p.id
             /\ SameFields(req[c].kind, p, r)
             /\ \E v \in Range(req[c].rows) : SameFields(req[c].kind, p, v)
             /\ p.updated_at < r.updated_at
             /\ r.updated_at = now

\* the positions (from 1) of the items of a request that pass validation
ValidPositions(kind, items) == {j \in 1..Len(items) : ItemError(kind, items[j]) = ""}

\* the k-th smallest member of a set of positions
KthOf(S, k) == CHOOSE j \in S : Cardinality({m \in S : m < j}) = k - 1

\* C11: validation is per item: every item index appears exactly once, as a
\* validated row (in request order) or as an error record carrying the item's
\* position in the request; an invalid item does not stop the validation of
\* later items, so len(valid_rows) + len(errors) = len(items).
C11_ValidationPerItem ==
    \A c \in Clients :
        pc[c] # "idle" =>
            LET kind == req[c].kind
                items == req[c].items
                V == ValidPositions(kind, items)
                E == (1..Len(items)) \ V
            IN  /\ Len(req[c].rows) + Len(req[c].errors) = Len(items)
                /\ Len(req[c].rows) = Cardinality(V)
                /\ \A k \in 1..Len(req[c].rows) :
                       req[c].rows[k] = ItemRow(kind, items[KthOf(V, k)])
                /\ Len(req[c].errors) = Cardinality(E)
                /\ \A k \in 1..Len(req[c].errors) :
                       req[c].errors[k].index = KthOf(E, k) - 1

\* the first item was refused and the second, validated after it, is the only row
C11_Witness ==
    \E c \in Clients :
        /\ pc[c] = "check" /\ req[c].kind = "costs"
        /\ Len(req[c].items) = 2
        /\ ItemError("costs", req[c].items[1]) # ""
        /\ req[c].rows = <<CostIngestRow(req[c].items[2])>>
        /\ Len(req[c].errors) = 1 /\ req[c].errors[1].index = 0

\* the codes that str.upper() leaves as they are
IsUpper(s) == Upper(s) = s

\* C13: every Cost row the bulk endpoint has stored carries an upper-case
\* currency, whether the row was inserted or updated on conflict.
C13_CurrencyUpper ==
    \A r \in costs \cup UNION {txw[c] : c \in {d \in Clients : req[d].kind = "costs"}} :
        IsUpper(r.currency)

\* "usd" was submitted and "USD" is stored, through the insert branch (the key
\* was absent) or the conflict branch (the key was stored with "EUR")
C13_Witness ==
    \E c \in Clients :
        /\ Ok(c) /\ req[c].kind = "costs"
        /\ \E i \in 1..Len(req[c].items) : req[c].items[i].currency = "usd"
        /\ \E p \in pre[c].costs, r \in costs :
             /\ r.id = p.id /\ p.currency = "EUR" /\ r.currency = "USD"
        /\ \E r \in costs : r.currency = "USD" /\ r.created_at < r.updated_at


\* C12: for a list of candidate keys of any length, looked up in chunks of
\* 1000, the lookup returns exactly the candidate keys that are stored (none
\* absent, none outside the candidates, none missed at a chunk boundary) and
\* the updated count of the call is the size of that set.
C12_ExistingKeysExact ==
    lookup.pc = "done" =>
        LET stored == {k \in Range(lookup.keys) : k \in KeysOf(lookup.kind, lookup.table)}
        IN  /\ lookup.existing = stored
            /\ lookup.updated = Cardinality(stored)

\* the first key of the second chunk is the only candidate that is stored,
\* next to a stored key that is no candidate
C12_Witness ==
    /\ lookup.pc = "done"
    /\ Len(lookup.keys) = ChunkSize + 1
    /\ lookup.keys[ChunkSize + 1] = KeyOf(lookup.kind, LookupItem(lookup.kind, "k1"))
    /\ lookup.table = {LookupRow(lookup.kind, "k1"), LookupRow(lookup.kind, "k2")}
    /\ lookup.existing = {lookup.keys[ChunkSize + 1]}
    /\ lookup.updated = 1


\* the text of a component without its whitespace, None read as the empty text
RECURSIVE NonSpace(_)
NonSpace(t) ==
    IF Len(t) = 0 THEN t
    ELSE IF Head(t) = " " THEN NonSpace(Tail(t)) ELSE <<Head(t)>> \o NonSpace(Tail(t))

OptionalComponents == {"recommendation_id", "external_resource_id", "description"}

TextOf(x, f) == IF f \in OptionalComponents THEN NonSpace(OrEmpty(x[f])) ELSE NonSpace(x[f])

Runs(n) == loader.pc = "idle" /\ Len(loader.hist) = n

\* run h of the loader wrote to the store and went through all its files,
\* none of which failed
CleanRun(h) ==
    /\ h.exit = 0 /\ ~h.dry_run
    /\ Len(h.outcomes) = Len(loader.files)
    /\ \A k \in 1..Len(h.outcomes) : ~h.outcomes[k].failed

\* C15: a second run of the loader on the same files against the same store
\* creates no row in resources, recommendations or resource_costs_daily: the
\* row counts are those after the first run and the second run reports
\* inserted = 0 for every table, whatever the time between the runs.
C15_IdempotentReruns ==
    (/\ Runs(2) /\ loader.script = "ingest_datasets"
     /\ CleanRun(loader.hist[1]) /\ CleanRun(loader.hist[2])) =>
        \A t \in Tables :
            /\ Cardinality(loader.hist[2].after[t]) = Cardinality(loader.hist[1].after[t])
            /\ loader.hist[2].totals[t].inserted = 0


\* the rows of the files of kind k
RowsOfKind(k) ==
    LET fs == SelectSeq(loader.files, LAMBDA f : f.kind = k)
        RECURSIVE Sum(_)
        Sum(n) == IF n = 0 THEN 0 ELSE Len(fs[n].rows) + Sum(n - 1)
    IN  Sum(Len(fs))

Accounted(counts) == counts.inserted + counts.updated + counts.skipped

\* C16: a complete run of the loader with dry-run enabled leaves every table
\* of the store (organizations, cloud_accounts, resources,
\* resource_costs_daily, recommendations) as it was before the run, and its
\* report still counts every row of the files as inserted, updated or skipped.
C16_DryRunWritesNothing ==
    \A n \in 1..Len(loader.hist) :
        LET h == loader.hist[n]
        IN  (h.dry_run /\ h.exit = 0 /\ h.outcomes # <<>>) =>
                /\ h.after = h.before
                /\ Accounted(h.totals.resources) = RowsOfKind("resources")
                /\ Accounted(h.totals.recommendations) = RowsOfKind("recommendations")

\* the runs of the loader, the one under way included
RunsSoFar ==
    IF loader.pc = "files" THEN Append(loader.hist, Finished(loader, db, 0)) ELSE loader.hist

\* C17: when the ingestion of one file fails, the writes made for that file
\* are rolled back, the writes committed for the files before it stay, and
\* the loader goes on to every remaining file.
C17_FileFailureIsolation ==
    /\ \A n \in 1..Len(RunsSoFar) :
           \A k \in 1..Len(RunsSoFar[n].outcomes) :
               LET o == RunsSoFar[n].outcomes[k]
               IN  o.failed => o.after = o.before /\ o.view = o.before
    /\ \A n \in 1..Len(loader.hist) :
           (\E k \in 1..Len(loader.hist[n].outcomes) : loader.hist[n].outcomes[k].failed)
               => Len(loader.hist[n].outcomes) = Len(loader.files)


\* the client of websocket w presented a valid token and its handshake was handled
Connected(w) == sockets[w].token = "valid" /\ sockets[w].state # "none"

\* the 'resources.bulk' events of its organization that websocket w received
BulkEvents(w) ==
    {i \in 1..Len(sockets[w].inbox) :
        /\ sockets[w].inbox[i].type = "resources.bulk"
        /\ sockets[w].inbox[i].organization_id = sockets[w].organization_id
        /\ sockets[w].inbox[i].processed_count >= 1}

\* C19: a client that connected to the activity stream of organization O
\* with a valid token is registered in the manager and first receives
\* 'connected'; every later successful POST /resources/bulk with a valid row
\* of O delivers a 'resources.bulk' event of O with processed_count >= 1 to it.
C19_ActivityDelivery ==
    \A w \in Sockets :
        Connected(w) =>
            /\ w \in Get(manager._org_conns, sockets[w].organization_id, {})
            /\ Len(sockets[w].inbox) >= 1
            /\ sockets[w].inbox[1].type = "connected"
            /\ Cardinality(BulkEvents(w)) = sockets[w].due

\* no connection is registered and no message is sent in any reachable state
NothingRegistered ==
    /\ \A o \in DOMAIN manager._org_conns : manager._org_conns[o] = {}
    /\ DOMAIN manager._by_org_user = {}
    /\ \A w \in Sockets : sockets[w].inbox = <<>> /\ ~sockets[w].ping_task


\* the sum of counter f of table t over the reports of the files of run h
\* (a file that failed handed no report to the run)
FileSum(h, t, f) ==
    LET RECURSIVE Sum(_)
        Sum(n) == IF n = 0 THEN 0
                  ELSE Sum(n - 1) + (IF h.outcomes[n].failed THEN 0 ELSE h.outcomes[n].rep[t][f])
    IN  Sum(Len(h.outcomes))

\* C22: in the final report of a run of the loader, the inserted, updated and
\* skipped totals of every table are the sums of the inserted, updated and
\* skipped counts of the files of the run.
C22_AdditiveReporting ==
    \A n \in 1..Len(loader.hist) :
        LET h == loader.hist[n]
        IN  h.exit = 0 =>
                \A t \in Tables : \A f \in {"inserted", "updated", "skipped"} :
                    h.totals[t][f] = FileSum(h, t, f)

\* a report was printed for a run in which two files counted rows of the
\* same table
C22_Witness ==
    \E n \in 1..Len(loader.hist) : \E t \in Tables :
        LET h == loader.hist[n]
        IN  /\ h.exit = 0
            /\ \E j, k \in 1..Len(h.outcomes) :
                   /\ j < k /\ ~h.outcomes[j].failed /\ ~h.outcomes[k].failed
                   /\ Accounted(h.outcomes[j].rep[t]) > 0
                   /\ Accounted(h.outcomes[k].rep[t]) > 0


\* C23: a run of the loader that goes through its files ends with exit code 0,
\* also when rows or files failed; a run ends with another code only when it
\* stopped on its configuration (input directory, database connection,
\* organization and accounts), before its first file.
C23_LoaderExitCode ==
    \A n \in 1..Len(loader.hist) :
        loader.hist[n].exit # 0 => loader.hist[n].outcomes = <<>>


\* C29: for every resource file that a run of the loader processed without a
\* failure of the file, resources.inserted + resources.updated +
\* resources.skipped of the file's report is the number of data rows of the
\* file, in a real run and in a dry run.
C29_RowConservation ==
    \A n \in 1..Len(RunsSoFar) :
        \A k \in 1..Len(RunsSoFar[n].outcomes) :
            LET o == RunsSoFar[n].outcomes[k]
            IN  (loader.files[k].kind = "resources" /\ ~o.failed) =>
                    Accounted(o.rep.resources) = Len(loader.files[k].rows)

\* file k of run n is a resource file that was processed without failure and
\* whose report counts a skipped row and a written (or would-be written) row
SkippedAndWritten(n, k) ==
    LET o == loader.hist[n].outcomes[k]
    IN  /\ loader.files[k].kind = "resources" /\ ~o.failed
        /\ o.rep.resources.skipped = 1
        /\ o.rep.resources.inserted + o.rep.resources.updated = 1

\* a dry run and a real run, of either loader, each with such a file
C29_Witness ==
    /\ \E n \in 1..Len(loader.hist) : \E k \in 1..Len(loader.hist[n].outcomes) :
           loader.hist[n].dry_run /\ SkippedAndWritten(n, k)
    /\ \E n \in 1..Len(loader.hist) : \E k \in 1..Len(loader.hist[n].outcomes) :
           ~loader.hist[n].dry_run /\ SkippedAndWritten(n, k)


\* runs n and m of ingest_datasets.py are a dry run and a real run that
\* reached resource file k with the same store and reported on it
DryAndReal(n, m, k) ==
    LET hd == loader.hist[n]
        hr == loader.hist[m]
    IN  /\ loader.script = "ingest_datasets"
        /\ hd.dry_run /\ ~hr.dry_run
        /\ k <= Len(hd.outcomes) /\ k <= Len(hr.outcomes)
        /\ loader.files[k].kind = "resources"
        /\ ~hd.outcomes[k].failed /\ ~hr.outcomes[k].failed
        /\ hd.outcomes[k].before = hr.outcomes[k].before

\* the resources counts of the two reports on file k are the same
SameResourceCounts(n, m, k) ==
    loader.hist[n].outcomes[k].rep.resources = loader.hist[m].outcomes[k].rep.resources

\* file k holds, in two rows that carry their required fields, a resource_id
\* that the store of run n did not hold when the file was reached
RepeatsNewId(n, k) ==
    LET rows == loader.files[k].rows
        h == loader.hist[n]
    IN  \E i, j \in 1..Len(rows) :
            /\ i < j
            /\ ~MissingRequired(rows[i]) /\ ~MissingRequired(rows[j])
            /\ rows[i].resource_id = rows[j].resource_id
            /\ \A x \in h.outcomes[k].before.resources :
                   ~(/\ x.organization_id = h.cfg.organization_id
                     /\ x.provider = loader.files[k].provider
                     /\ x.resource_id = ValueOf(rows[i].resource_id))

ReportedInserted(c) == IF resp[c].status = "200" THEN resp[c].inserted ELSE 0

\* C26: for any interleaving of concurrent bulk-ingest calls, the inserted
\* counts reported by the calls add up to the number of rows that exist after
\* all calls have finished and did not exist before them. (Both clients hold
\* their response, so theirs are all the calls made and the tables were empty
\* before them.)
C26_CountsUnderConcurrency ==
    (\A c \in Clients : pc[c] = "respond") =>
        ReportedInserted("c1") + ReportedInserted("c2")
            = Cardinality(resources) + Cardinality(costs)

\* C27: for every successful bulk upsert call running alone, the reported
\* inserted count is the increase in the number of stored rows of the table
\* caused by the call, also when the batch holds several rows with the same
\* natural key.
C27_InsertedIsGrowth ==
    \A c \in Clients :
        Ok(c) => resp[c].inserted
                    = Cardinality(Table(req[c].kind)) - Cardinality(PreTable(c))


\* C24: a bulk-ingest call with at least one valid row opens exactly one
\* transaction, with success, in which the existence check and the upsert
\* run and are committed together; a call with no valid row opens none.
C24_SingleTransaction ==
    \A c \in Clients :
        /\ pc[c] \in {"check", "write", "commit"} =>
               session[c].begun = 1 /\ session[c].in_transaction
        /\ (Done(c) /\ req[c] # NoRequest) =>
               IF req[c].rows # <<>>
               THEN session[c].begun = 1 /\ ~session[c].in_transaction
               ELSE session[c].begun = 0 /\ ~session[c].in_transaction


\* call c has left its transaction block with its rows committed: its
\* response is the 200 and every valid row's key is in the committed table
CommittedCall(c) ==
    /\ resp[c].status = "200"
    /\ txw[c] = {}
    /\ req[c].rows # <<>>
    /\ \A i \in 1..Len(req[c].rows) :
           KeyOf(req[c].kind, req[c].rows[i]) \in KeysOf(req[c].kind, Table(req[c].kind))

\* call c goes through its broadcast block in this step
Broadcasts(c) == pc[c] = "broadcast" /\ pc'[c] = "respond"

\* C25: the activity event of a bulk-ingest call is broadcast only after the
\* call's transaction has committed, never for a call answered with 400 or
\* whose transaction failed, and the broadcast block, whether or not it
\* raises, leaves the committed rows and the response of the call as they
\* were.
C25_BroadcastOrdering ==
    [][/\ \A w \in Sockets :
              sockets'[w] # sockets[w] /\ sockets'[w].due > sockets[w].due =>
                  \E c \in Clients : Broadcasts(c) /\ CommittedCall(c)
       /\ \A c \in Clients :
              Broadcasts(c) =>
                  /\ CommittedCall(c)
                  /\ resp'[c] = resp[c]
                  /\ resources' = resources /\ costs' = costs]_vars

\* an event of a committed call is due to a client of the stream, and the
\* call holds its 200
C25_Witness ==
    \E c \in Clients, w \in Sockets :
        /\ pc[c] = "respond" /\ CommittedCall(c)
        /\ sockets[w].due > 0
====
